---- MODULE Spec2Model ----
(***************************************************************************)
(* Model of the streaming gateway of deepchat:                             *)
(*   - the stream registry of LLMProviderPresenter (activeStreams,         *)
(*     stopStream, stopAllStreams, setCurrentProvider, runSlashCommand),   *)
(*   - the Anthropic and OpenAI streaming encoders                         *)
(*     (StreamingResponseBuilder, OpenAIStreamingBuilder),                 *)
(*   - the non-streaming handlers, the stop-reason mappings, the model     *)
(*     router (mapClaudeModel) and the request dispatcher of               *)
(*     AnthropicApiPresenter,                                              *)
(*   - the request normalizers (convertClaudeToInternal and the two        *)
(*     convertUserMessage), handleCountTokens and handleListModels,        *)
(*   - the permissions resolved through resolveAgentPermission.            *)
(***************************************************************************)
EXTENDS Integers, Sequences, FiniteSets, TLC

\* ------------------------------------------------------------------ bounds
MaxSessions == 2
MaxEvents == 2
MaxCeiling == 2
MaxOps == 3
MaxModelLen == 4

\* config.maxConcurrentStreams as constructed
DefaultMaxConcurrentStreams == 10

Sessions == 1..MaxSessions
EventIds == {"e1", "e2"}
ProviderIds == {"acp", "ghost"}
\* providers known to the provider instance manager; "acp" is the AcpProvider
KnownProviders == {"acp"}
\* kinds of chunk the provider stream of a slash command can produce
ChunkKinds == {"text", "text_empty", "reasoning", "usage", "error", "stop"}

VARIABLES
    activeStreams,          \* Map<eventId, StreamState>: eventId -> owning session
    maxConcurrentStreams,   \* config.maxConcurrentStreams
    currentProviderId,      \* currentProviderId ("null" when unset)
    pc,                     \* position of each runSlashCommand generator
    aborted,                \* abortController.signal.aborted of each session
    eventIdOf,              \* the eventId argument of each session
    events,                 \* events yielded by each generator, in order
    pending,                \* completion that follows the yield in finally
    consumer,               \* the for-await loop consuming the generator
    stopAt,                 \* Len(events) when the abort signal was first set
    deregs,                 \* times the finally block of the session ran delete
    scpPc,                  \* position of setCurrentProvider
    scpArg,                 \* its providerId argument
    stopAllTargets,         \* sessions registered when stopAllStreams was called
    sb,                     \* the StreamingResponseBuilder of an Anthropic stream
    aPc,                    \* position of handleStreamingResponse
    aFrames,                \* frames written to the response, in order
    aTokens,                \* inputTokens, outputTokens of the handler
    aLog,                   \* events handled so far, each with the frames it wrote
    aDestroyed,             \* res.destroyed of the Anthropic response
    ob,                     \* the OpenAIStreamingBuilder of an OpenAI stream
    oPc,                    \* position of handleOpenAIStreamingResponse
    oFrames,                \* chunks written to the response, in order
    oTokens,                \* inputTokens, outputTokens of the handler
    oStopReason,            \* stopReason of the handler ("undefined" when unset)
    oLog,                   \* events handled so far, each with the chunks it wrote
    oDestroyed,             \* res.destroyed of the OpenAI response
    ns,                     \* the locals of handleNonStreamingResponse
    ons,                    \* the locals of handleOpenAINonStreamingResponse
    call,                   \* the last call of a pure function, with its result
    gw,                     \* the last request the dispatcher handled, with its answer
    acp,                    \* the pending permissions of the ACP provider, with
                            \* the calls of resolveAgentPermission so far
    enc,                    \* the locals of each of two streaming handlers
                            \* running at the same time
    srv                     \* server, isRunning and the http servers of one
                            \* AnthropicApiPresenter

streamVars == <<activeStreams, maxConcurrentStreams, currentProviderId, pc, aborted,
                eventIdOf, events, pending, consumer, stopAt, deregs,
                scpPc, scpArg, stopAllTargets>>
anthVars == <<sb, aPc, aFrames, aTokens, aLog, aDestroyed>>
openaiVars == <<ob, oPc, oFrames, oTokens, oStopReason, oLog, oDestroyed>>

gatewayVars == <<ns, ons, call, gw, acp, enc, srv>>

vars == <<streamVars, anthVars, openaiVars, gatewayVars>>

sessVars == <<pc, eventIdOf, events, pending, consumer, deregs>>
scpVars == <<scpPc, scpArg, stopAllTargets, currentProviderId>>

\* ------------------------------------------------------------- the registry
MapSet(m, k, v) == [x \in (DOMAIN m) \cup {k} |-> IF x = k THEN v ELSE m[x]]

MapDelete_skip(m, k) == m

MapDelete(m, k) == [x \in (DOMAIN m) \ {k} |-> m[x]]

MapValues(m) == {m[k] : k \in DOMAIN m}

\* the session whose StreamState is stored under some key of activeStreams
Registered(s) == s \in MapValues(activeStreams)

isGenerating(e) == e \in DOMAIN activeStreams

canStartNewStream == Cardinality(DOMAIN activeStreams) < maxConcurrentStreams

\* ------------------------------------------------------------------ events
ResponseEvent == [type |-> "response", userStop |-> FALSE]
ErrorEvent == [type |-> "error", userStop |-> FALSE]

EndEvent_never(ab) == [type |-> "end", userStop |-> FALSE]

EndEvent(ab) == [type |-> "end", userStop |-> ab]

\* the event the switch of runSlashCommand yields for a chunk, <<>> for none
ChunkEvents(kind) ==
    CASE kind = "text" -> <<ResponseEvent>>
      [] kind = "text_empty" -> <<>>
      [] kind = "reasoning" -> <<ResponseEvent>>
      [] kind = "usage" -> <<ResponseEvent>>
      [] kind = "error" -> <<ErrorEvent>>
      [] kind = "stop" -> <<>>

AbortObserved_never(s) == FALSE

\* if (abortController.signal.aborted) break
AbortObserved(s) == aborted[s]

\* ----------------------------------------------------------------- Init
InitStreams ==
    /\ activeStreams = << >>
    /\ maxConcurrentStreams = DefaultMaxConcurrentStreams
    /\ currentProviderId = "null"
    /\ pc = [s \in Sessions |-> "new"]
    /\ aborted = [s \in Sessions |-> FALSE]
    /\ eventIdOf = [s \in Sessions |-> "e1"]
    /\ events = [s \in Sessions |-> << >>]
    /\ pending = [s \in Sessions |-> "normal"]
    /\ consumer = [s \in Sessions |-> "iterating"]
    /\ stopAt = [s \in Sessions |-> 0]
    /\ deregs = [s \in Sessions |-> 0]
    /\ scpPc = "idle"
    /\ scpArg = "acp"
    /\ stopAllTargets = {}

\* ------------------------------------------------------- runSlashCommand
\* The first next() of the generator: the provider check, then the registry
\* insert, then the loop starts waiting for the first chunk.  Nothing consults
\* canStartNewStream.
Start(s, e, p) ==
    /\ pc[s] = "new"
    /\ \A t \in Sessions : t < s => pc[t] # "new"
    /\ IF p # "acp"
         THEN /\ pc' = [pc EXCEPT ![s] = "rejected"]
              /\ UNCHANGED <<activeStreams, eventIdOf>>
         ELSE /\ pc' = [pc EXCEPT ![s] = "awaitChunk"]
              /\ eventIdOf' = [eventIdOf EXCEPT ![s] = e]
              /\ activeStreams' = MapSet(activeStreams, e, s)
    /\ UNCHANGED <<maxConcurrentStreams, aborted, events, pending,
                   consumer, stopAt, deregs, scpVars>>
    /\ UNCHANGED <<anthVars, openaiVars, gatewayVars>>

\* finally { activeStreams.delete(eventId); yield end{userStop: aborted} }
RunFinally(s, how) ==
    /\ activeStreams' = MapDelete(activeStreams, eventIdOf[s])
    /\ deregs' = [deregs EXCEPT ![s] = @ + 1]
    /\ events' = [events EXCEPT ![s] = Append(@, EndEvent(aborted[s]))]
    /\ pc' = [pc EXCEPT ![s] = "yieldedEnd"]
    /\ pending' = [pending EXCEPT ![s] = how]

\* the provider stream delivers a chunk to the for-await loop
ProviderChunk(s, kind) ==
    /\ pc[s] = "awaitChunk"
    /\ Len(events[s]) < MaxEvents
    /\ IF AbortObserved(s)
         THEN RunFinally(s, "normal")
         ELSE /\ events' = [events EXCEPT ![s] = @ \o ChunkEvents(kind)]
              /\ pc' = [pc EXCEPT ![s] =
                          IF ChunkEvents(kind) = <<>> THEN "awaitChunk" ELSE "yielded"]
              /\ UNCHANGED <<activeStreams, deregs, pending>>
    /\ UNCHANGED <<maxConcurrentStreams, aborted, eventIdOf, consumer, stopAt, scpVars>>
    /\ UNCHANGED <<anthVars, openaiVars, gatewayVars>>

\* the provider stream is exhausted
ProviderDone(s) ==
    /\ pc[s] = "awaitChunk"
    /\ RunFinally(s, "normal")
    /\ UNCHANGED <<maxConcurrentStreams, aborted, eventIdOf, consumer,
                   stopAt, scpVars>>
    /\ UNCHANGED <<anthVars, openaiVars, gatewayVars>>

ProviderThrow_noFinally(s) ==
    /\ pc[s] = "awaitChunk"
    /\ pc' = [pc EXCEPT ![s] = "threw"]
    /\ UNCHANGED <<activeStreams, maxConcurrentStreams, aborted, eventIdOf,
                   events, pending, consumer, stopAt, deregs, scpVars>>
    /\ UNCHANGED <<anthVars, openaiVars, gatewayVars>>

\* the provider stream throws: finally runs, the exception follows the end event
ProviderThrow(s) ==
    /\ pc[s] = "awaitChunk"
    /\ RunFinally(s, "throw")
    /\ UNCHANGED <<maxConcurrentStreams, aborted, eventIdOf, consumer,
                   stopAt, scpVars>>
    /\ UNCHANGED <<anthVars, openaiVars, gatewayVars>>

\* the consuming loop asks for the next event
ConsumerNext(s) ==
    /\ consumer[s] = "iterating"
    /\ \/ /\ pc[s] = "yielded"
          /\ pc' = [pc EXCEPT ![s] = "awaitChunk"]
       \/ /\ pc[s] = "yieldedEnd"
          /\ pc' = [pc EXCEPT ![s] = IF pending[s] = "throw" THEN "threw" ELSE "done"]
    /\ UNCHANGED <<activeStreams, maxConcurrentStreams, aborted, eventIdOf,
                   events, pending, consumer, stopAt, deregs, scpVars>>
    /\ UNCHANGED <<anthVars, openaiVars, gatewayVars>>

\* the consuming loop leaves early (break or throw in its body): return() is
\* called on the generator, which is suspended at a yield
ConsumerAbandon(s) ==
    /\ consumer[s] = "iterating"
    /\ consumer' = [consumer EXCEPT ![s] = "left"]
    /\ \/ /\ pc[s] = "yielded"
          /\ RunFinally(s, "return")
       \/ /\ pc[s] = "yieldedEnd"
          /\ pc' = [pc EXCEPT ![s] = "done"]
          /\ UNCHANGED <<activeStreams, deregs, events, pending>>
    /\ UNCHANGED <<maxConcurrentStreams, aborted, eventIdOf, stopAt, scpVars>>
    /\ UNCHANGED <<anthVars, openaiVars, gatewayVars>>

\* ------------------------------------------------------------ cancellation
\* abort() on the controllers of the sessions in S; stopAt remembers where
AbortAll(S) ==
    /\ aborted' = [s \in Sessions |-> aborted[s] \/ s \in S]
    /\ stopAt' = [s \in Sessions |->
                    IF s \in S /\ ~aborted[s] THEN Len(events[s]) ELSE stopAt[s]]

StopStream_delete(e) ==
    /\ IF e \in DOMAIN activeStreams
         THEN AbortAll({activeStreams[e]})
         ELSE UNCHANGED <<aborted, stopAt>>
    /\ activeStreams' = MapDelete(activeStreams, e)
    /\ UNCHANGED <<maxConcurrentStreams, sessVars, scpVars>>
    /\ UNCHANGED <<anthVars, openaiVars, gatewayVars>>

StopStream(e) ==
    /\ IF e \in DOMAIN activeStreams
         THEN AbortAll({activeStreams[e]})
         ELSE UNCHANGED <<aborted, stopAt>>
    /\ UNCHANGED <<activeStreams, maxConcurrentStreams, sessVars, scpVars>>
    /\ UNCHANGED <<anthVars, openaiVars, gatewayVars>>

StopAllAborted_none(m) == {}

\* the sessions stopAllStreams calls stopStream for
StopAllAborted(m) == MapValues(m)

\* setCurrentProvider up to "await this.stopAllStreams()": every stopStream
\* body has run, the caller waits for Promise.all
SetCurrentProviderCall(p) ==
    /\ scpPc = "idle"
    /\ scpPc' = "awaitStopAll"
    /\ scpArg' = p
    /\ stopAllTargets' = MapValues(activeStreams)
    /\ AbortAll(StopAllAborted(activeStreams))
    /\ UNCHANGED <<activeStreams, maxConcurrentStreams, sessVars, currentProviderId>>
    /\ UNCHANGED <<anthVars, openaiVars, gatewayVars>>

\* stopAllStreams has returned; the rest of setCurrentProvider runs
SetCurrentProviderResume ==
    /\ scpPc = "awaitStopAll"
    /\ scpPc' = "idle"
    /\ scpArg' = "acp"
    /\ stopAllTargets' = {}
    /\ IF scpArg \in KnownProviders
         THEN currentProviderId' = scpArg
         ELSE UNCHANGED currentProviderId
    /\ UNCHANGED <<activeStreams, maxConcurrentStreams, aborted, stopAt, sessVars>>
    /\ UNCHANGED <<anthVars, openaiVars, gatewayVars>>

setMaxConcurrentStreams(max) ==
    /\ maxConcurrentStreams' = max
    /\ UNCHANGED <<activeStreams, aborted, stopAt, sessVars, scpVars>>
    /\ UNCHANGED <<anthVars, openaiVars, gatewayVars>>

\* steps of the sessions: the generators, their providers and their consumers
SessionStep ==
    \/ \E s \in Sessions, e \in EventIds, p \in ProviderIds : Start(s, e, p)
    \/ \E s \in Sessions, k \in ChunkKinds : ProviderChunk(s, k)
    \/ \E s \in Sessions : ProviderDone(s)
    \/ \E s \in Sessions : ProviderThrow(s)
    \/ \E s \in Sessions : ConsumerNext(s)
    \/ \E s \in Sessions : ConsumerAbandon(s)


\* ======================================================= protocol encoders
\* strings are sequences of characters
F_open == <<"{", "\"", "a", "\"", ":">>
F_close == <<"1", "}">>
F_whole == <<"{", "\"", "a", "\"", ":", "1", "}">>
F_one == <<"1">>

\* tool_call_params values of update events
Fragments == {<< >>, F_open, F_close, F_whole, F_one}
ToolIds == {"t1", "t2"}

\* ------------------------------------------------------------ JSON.parse
\* Whether JSON.parse accepts s, for s over the characters { } " : , 1 a
\* (objects, strings and numbers; no white space).
RECURSIVE SkipDigits(_, _)
SkipDigits(s, i) ==
    IF i <= Len(s) /\ s[i] = "1" THEN SkipDigits(s, i + 1) ELSE i

\* the position after the string whose opening quote precedes i; 0 if it never ends
RECURSIVE StringEnd(_, _)
StringEnd(s, i) ==
    IF i > Len(s) THEN 0
    ELSE IF s[i] = "\"" THEN i + 1
    ELSE StringEnd(s, i + 1)

\* the position after the value that starts at i; 0 if there is none
RECURSIVE ParseValue(_, _)
RECURSIVE ParseMembers(_, _)
ParseValue(s, i) ==
    IF i > Len(s) THEN 0
    ELSE CASE s[i] = "1" -> SkipDigits(s, i)
           [] s[i] = "\"" -> StringEnd(s, i + 1)
           [] s[i] = "{" ->
                IF i + 1 <= Len(s) /\ s[i + 1] = "}" THEN i + 2
                ELSE ParseMembers(s, i + 1)
           [] OTHER -> 0

\* the position after the } that closes the members starting at i; 0 if none
ParseMembers(s, i) ==
    IF i > Len(s) \/ s[i] # "\"" THEN 0
    ELSE LET k == StringEnd(s, i + 1)
         IN  IF k = 0 \/ k > Len(s) \/ s[k] # ":" THEN 0
             ELSE LET v == ParseValue(s, k + 1)
                  IN  IF v = 0 \/ v > Len(s) THEN 0
                      ELSE IF s[v] = "}" THEN v + 1
                      ELSE IF s[v] = "," THEN ParseMembers(s, v + 1)
                      ELSE 0

JsonParses(s) == ParseValue(s, 1) = Len(s) + 1

\* ------------------------------------------------- canonical agent events
\* LLMAgentEvent as the handlers read it: content "" and tool_call "none"
\* stand for absent fields, totalUsage << >> for no usage
AgentEvent(type, content, toolCall, id, params, usage, userStop) ==
    [type |-> type, content |-> content, tool_call |-> toolCall,
     tool_call_id |-> id, tool_call_params |-> params, totalUsage |-> usage,
     userStop |-> userStop]

TextEvents == {AgentEvent("response", "x", "none", "", << >>, << >>, FALSE)}
StartEvents ==
    {AgentEvent("response", "", "start", id, << >>, << >>, FALSE) : id \in ToolIds}
UpdateEvents ==
    {AgentEvent("response", "", "update", id, f, << >>, FALSE) :
        id \in ToolIds, f \in Fragments}
\* totalUsage {prompt_tokens: 3, completion_tokens: 5}
UsageEvents == {AgentEvent("response", "", "none", "", << >>, <<3, 5>>, FALSE)}
EndEvents == {AgentEvent("end", "", "none", "", << >>, << >>, u) : u \in BOOLEAN}
ErrorEvents == {AgentEvent("error", "", "none", "", << >>, << >>, FALSE)}

GatewayEvents ==
    TextEvents \cup StartEvents \cup UpdateEvents \cup UsageEvents
        \cup EndEvents \cup ErrorEvents

\* tool_call_name of every start event
ToolName == "f"

\* ------------------------------------------ Anthropic StreamEvent frames
\* index -1 stands for a frame without an index
Frame(type, index, sub, id, data) ==
    [type |-> type, index |-> index, sub |-> sub, id |-> id, data |-> data]

buildMessageStartEvent == Frame("message_start", -1, "", "", << >>)
buildTextBlockStartEvent(index) == Frame("content_block_start", index, "text", "", << >>)
buildToolUseBlockStartEvent(index, toolId, toolName) ==
    Frame("content_block_start", index, "tool_use", toolId, << >>)
buildTextDeltaEvent(index, text) == Frame("content_block_delta", index, "text_delta", "", <<text>>)
buildInputJsonDeltaEvent(index, partialJson) ==
    Frame("content_block_delta", index, "input_json_delta", "", partialJson)
buildContentBlockStopEvent(index) == Frame("content_block_stop", index, "", "", << >>)
buildMessageDeltaEvent(stopReason, usage) == Frame("message_delta", -1, stopReason, "", usage)
buildMessageStopEvent == Frame("message_stop", -1, "", "", << >>)
buildPingEvent == Frame("ping", -1, "", "", << >>)
buildErrorEvent(errorType, message) == Frame("error", -1, errorType, "", << >>)

mapStopReason_noDefault(reason) ==
    CASE reason \in {"complete", "stop", "end_turn"} -> "end_turn"
      [] reason \in {"max_tokens", "length"} -> "max_tokens"
      [] reason \in {"tool_use", "tool_calls", "function_call"} -> "tool_use"
      [] reason = "stop_sequence" -> "stop_sequence"
      [] OTHER -> "null"

mapStopReason(reason) ==
    CASE reason \in {"", "undefined"} -> "null"
      [] reason \in {"complete", "stop", "end_turn"} -> "end_turn"
      [] reason \in {"max_tokens", "length"} -> "max_tokens"
      [] reason \in {"tool_use", "tool_calls", "function_call"} -> "tool_use"
      [] reason = "stop_sequence" -> "stop_sequence"
      [] OTHER -> "end_turn"

\* --------------------------------------------- StreamingResponseBuilder
textBlockIndex == 0

\* currentToolCalls is a Map: calls holds its entries, order its keys in
\* insertion order (set() on a present key keeps the key's place)
NewStreamingResponseBuilder ==
    [toolBlockCounter |-> 0, order |-> << >>, calls |-> << >>,
     usage |-> <<0, 0>>, stopReason |-> "null"]

getInitialEvents(b) ==
    <<buildMessageStartEvent, buildTextBlockStartEvent(textBlockIndex), buildPingEvent>>

handleTextDelta(b, text) == <<buildTextDeltaEvent(textBlockIndex, text)>>

handleToolCallStart_keepIndex(b, toolId, toolName) ==
    LET index == IF toolId \in DOMAIN b.calls
                   THEN b.calls[toolId].index
                   ELSE textBlockIndex + Len(b.order) + 1
    IN  [b |-> [b EXCEPT
                  !.order = IF toolId \in DOMAIN b.calls THEN @ ELSE Append(@, toolId),
                  !.calls = MapSet(@, toolId,
                               [index |-> index, name |-> toolName, argsBuffer |-> << >>])],
         out |-> <<buildToolUseBlockStartEvent(index, toolId, toolName)>>]

\* the builder after the call, and the frames the call returns
handleToolCallStart(b, toolId, toolName) ==
    LET counter == b.toolBlockCounter + 1
        index == textBlockIndex + counter
    IN  [b |-> [b EXCEPT
                  !.toolBlockCounter = counter,
                  !.order = IF toolId \in DOMAIN b.calls THEN @ ELSE Append(@, toolId),
                  !.calls = MapSet(@, toolId,
                               [index |-> index, name |-> toolName, argsBuffer |-> << >>])],
         out |-> <<buildToolUseBlockStartEvent(index, toolId, toolName)>>]

handleToolCallChunk_ungated(b, toolId, chunk) ==
    IF toolId \notin DOMAIN b.calls THEN [b |-> b, out |-> << >>]
    ELSE LET buffer == b.calls[toolId].argsBuffer \o chunk
         IN  [b |-> [b EXCEPT !.calls[toolId].argsBuffer = buffer],
              out |-> <<buildInputJsonDeltaEvent(b.calls[toolId].index, buffer)>>]

handleToolCallChunk(b, toolId, chunk) ==
    IF toolId \notin DOMAIN b.calls THEN [b |-> b, out |-> << >>]
    ELSE LET buffer == b.calls[toolId].argsBuffer \o chunk
         IN  [b |-> [b EXCEPT !.calls[toolId].argsBuffer = buffer],
              out |-> IF JsonParses(buffer)
                        THEN <<buildInputJsonDeltaEvent(b.calls[toolId].index, buffer)>>
                        ELSE << >>]

setUsage(b, inputTokens, outputTokens) == [b EXCEPT !.usage = <<inputTokens, outputTokens>>]

setStopReason(b, reason) == [b EXCEPT !.stopReason = mapStopReason(reason)]

getFinalEvents_reversed(b) ==
    <<buildContentBlockStopEvent(textBlockIndex)>>
    \o [k \in 1..Len(b.order) |->
           buildContentBlockStopEvent(b.calls[b.order[Len(b.order) + 1 - k]].index)]
    \o <<buildMessageDeltaEvent(
             IF Len(b.order) > 0 THEN "tool_use"
             ELSE IF b.stopReason = "null" THEN "end_turn" ELSE b.stopReason,
             b.usage)>>
    \o <<buildMessageStopEvent>>

getFinalEvents(b) ==
    <<buildContentBlockStopEvent(textBlockIndex)>>
    \o [k \in 1..Len(b.order) |-> buildContentBlockStopEvent(b.calls[b.order[k]].index)]
    \o <<buildMessageDeltaEvent(
             IF Len(b.order) > 0 THEN "tool_use"
             ELSE IF b.stopReason = "null" THEN "end_turn" ELSE b.stopReason,
             b.usage)>>
    \o <<buildMessageStopEvent>>

getErrorEvent(b, errorType, message) == <<buildErrorEvent(errorType, message)>>

\* ---------------------------------------------- handleStreamingResponse
InitAnthropic ==
    /\ sb = NewStreamingResponseBuilder
    /\ aPc = "begin"
    /\ aFrames = << >>
    /\ aTokens = <<0, 0>>
    /\ aLog = << >>
    /\ aDestroyed = FALSE

\* res.write(builder.getInitialEvents()); the stream is opened
AnthBegin ==
    /\ aPc = "begin"
    /\ aPc' = "loop"
    /\ aFrames' = aFrames \o getInitialEvents(sb)
    /\ UNCHANGED <<sb, aTokens, aLog, aDestroyed>>
    /\ UNCHANGED <<streamVars, openaiVars, gatewayVars>>

\* the client closes the connection
AnthClientGone ==
    /\ aPc = "loop"
    /\ ~aDestroyed
    /\ aDestroyed' = TRUE
    /\ UNCHANGED <<sb, aPc, aFrames, aTokens, aLog>>
    /\ UNCHANGED <<streamVars, openaiVars, gatewayVars>>

\* the body of the for-await loop for a response event: the builder after it
\* and the frames written
AnthResponse(b, data) ==
    LET text == IF data.content # "" THEN handleTextDelta(b, data.content) ELSE << >>
        started == IF data.tool_call = "start" /\ data.tool_call_id # ""
                     THEN handleToolCallStart(b, data.tool_call_id, ToolName)
                     ELSE [b |-> b, out |-> << >>]
        chunked == IF data.tool_call = "update" /\ data.tool_call_id # ""
                        /\ data.tool_call_params # << >>
                     THEN handleToolCallChunk(started.b, data.tool_call_id,
                                              data.tool_call_params)
                     ELSE [b |-> started.b, out |-> << >>]
    IN  [b |-> chunked.b, out |-> text \o started.out \o chunked.out]

AnthHandle(b, ev) ==
    CASE ev.type = "response" -> AnthResponse(b, ev)
      [] ev.type = "end" ->
           [b |-> setStopReason(b, IF ev.userStop THEN "stop_sequence" ELSE "end_turn"),
            out |-> << >>]
      [] ev.type = "error" -> [b |-> b, out |-> getErrorEvent(b, "api_error", "e")]

\* after the loop: builder.setUsage, res.write(builder.getFinalEvents()), res.end()
AnthFinish ==
    /\ aPc' = "ended"
    /\ sb' = setUsage(sb, aTokens[1], aTokens[2])
    /\ aFrames' = aFrames \o getFinalEvents(sb')

\* the stream delivers an event to the loop; a closed connection breaks the loop
AnthEvent(ev) ==
    /\ aPc = "loop"
    /\ aDestroyed \/ Len(aLog) < MaxOps
    /\ IF aDestroyed
         THEN /\ AnthFinish
              /\ UNCHANGED <<aTokens, aLog>>
         ELSE /\ LET r == AnthHandle(sb, ev)
                 IN  /\ sb' = r.b
                     /\ aFrames' = aFrames \o r.out
                     /\ aLog' = Append(aLog, [ev |-> ev, out |-> r.out])
              /\ aTokens' = IF ev.type = "response" /\ ev.totalUsage # << >>
                              THEN ev.totalUsage ELSE aTokens
              /\ UNCHANGED aPc
    /\ UNCHANGED aDestroyed
    /\ UNCHANGED <<streamVars, openaiVars, gatewayVars>>

\* the stream is exhausted
AnthStreamEnd ==
    /\ aPc = "loop"
    /\ AnthFinish
    /\ UNCHANGED <<aTokens, aLog, aDestroyed>>
    /\ UNCHANGED <<streamVars, openaiVars, gatewayVars>>

\* the stream throws: the catch block writes an error event, res.end()
AnthStreamThrow ==
    /\ aPc = "loop"
    /\ aPc' = "failed"
    /\ aFrames' = aFrames \o getErrorEvent(sb, "api_error", "e")
    /\ UNCHANGED <<sb, aTokens, aLog, aDestroyed>>
    /\ UNCHANGED <<streamVars, openaiVars, gatewayVars>>

\* ----------------------------------------------- OpenAIStreamingBuilder
\* an OpenAIStreamChunk: delta names what the delta carries
Chunk(delta, index, id, arguments, finish) ==
    [delta |-> delta, index |-> index, id |-> id, arguments |-> arguments,
     finish_reason |-> finish]

DoneFrame == Chunk("[DONE]", -1, "", << >>, "null")

mapToOpenAIFinishReason(reason, hasToolCalls) ==
    IF hasToolCalls THEN "tool_calls"
    ELSE CASE reason \in {"", "undefined"} -> "null"
           [] reason \in {"complete", "stop", "end_turn"} -> "stop"
           [] reason \in {"max_tokens", "length"} -> "length"
           [] reason \in {"tool_use", "tool_calls", "function_call"} -> "tool_calls"
           [] OTHER -> "stop"

NewOpenAIStreamingBuilder ==
    [toolCallIndex |-> 0, calls |-> << >>, usage |-> <<0, 0>>]

buildInitialChunk(b) == <<Chunk("role", -1, "", << >>, "null")>>

buildContentChunk(b, content) == <<Chunk("content", -1, "", <<content>>, "null")>>

buildToolCallStartChunk(b, toolId, toolName) ==
    LET index == b.toolCallIndex
    IN  [b |-> [b EXCEPT
                  !.toolCallIndex = index + 1,
                  !.calls = MapSet(@, toolId,
                               [index |-> index, name |-> toolName, argsBuffer |-> << >>])],
         out |-> <<Chunk("tool_call_start", index, toolId, << >>, "null")>>]

buildToolCallArgsChunk_buffered(b, toolId, args) ==
    IF toolId \notin DOMAIN b.calls THEN [b |-> b, out |-> << >>]
    ELSE LET buffer == b.calls[toolId].argsBuffer \o args
         IN  [b |-> [b EXCEPT !.calls[toolId].argsBuffer = buffer],
              out |-> IF JsonParses(buffer)
                        THEN <<Chunk("tool_call_args", b.calls[toolId].index, "", buffer, "null")>>
                        ELSE << >>]

buildToolCallArgsChunk(b, toolId, args) ==
    IF toolId \notin DOMAIN b.calls THEN [b |-> b, out |-> << >>]
    ELSE [b |-> b,
          out |-> <<Chunk("tool_call_args", b.calls[toolId].index, "", args, "null")>>]

buildFinalChunk(b, finishReason) == <<Chunk("final", -1, "", b.usage, finishReason)>>

buildDone(b) == <<DoneFrame>>

hasToolCalls(b) == DOMAIN b.calls # {}

\* ------------------------------------------ handleOpenAIStreamingResponse
InitOpenAI ==
    /\ ob = NewOpenAIStreamingBuilder
    /\ oPc = "begin"
    /\ oFrames = << >>
    /\ oTokens = <<0, 0>>
    /\ oStopReason = "undefined"
    /\ oLog = << >>
    /\ oDestroyed = FALSE

OpenAIBegin ==
    /\ oPc = "begin"
    /\ oPc' = "loop"
    /\ oFrames' = oFrames \o buildInitialChunk(ob)
    /\ UNCHANGED <<ob, oTokens, oStopReason, oLog, oDestroyed>>
    /\ UNCHANGED <<streamVars, anthVars, gatewayVars>>

\* the client closes the connection
OpenAIClientGone ==
    /\ oPc = "loop"
    /\ ~oDestroyed
    /\ oDestroyed' = TRUE
    /\ UNCHANGED <<ob, oPc, oFrames, oTokens, oStopReason, oLog>>
    /\ UNCHANGED <<streamVars, anthVars, gatewayVars>>

\* the body of the for-await loop for a response event
OpenAIResponse(b, data) ==
    LET text == IF data.content # "" THEN buildContentChunk(b, data.content) ELSE << >>
        started == IF data.tool_call = "start" /\ data.tool_call_id # ""
                     THEN buildToolCallStartChunk(b, data.tool_call_id, ToolName)
                     ELSE [b |-> b, out |-> << >>]
        args == IF data.tool_call = "update" /\ data.tool_call_id # ""
                     /\ data.tool_call_params # << >>
                  THEN buildToolCallArgsChunk(started.b, data.tool_call_id,
                                              data.tool_call_params)
                  ELSE [b |-> started.b, out |-> << >>]
    IN  [b |-> args.b, out |-> text \o started.out \o args.out]

\* after the loop: setUsage, the final chunk, [DONE], res.end()
OpenAIFinish ==
    /\ oPc' = "ended"
    /\ ob' = [ob EXCEPT !.usage = oTokens]
    /\ oFrames' = oFrames
                    \o buildFinalChunk(ob', mapToOpenAIFinishReason(oStopReason, hasToolCalls(ob)))
                    \o buildDone(ob)

\* the stream delivers an event to the loop; a closed connection breaks the loop
OpenAIEvent(ev) ==
    /\ oPc = "loop"
    /\ oDestroyed \/ Len(oLog) < MaxOps
    /\ IF oDestroyed
         THEN /\ OpenAIFinish
              /\ UNCHANGED <<oTokens, oStopReason, oLog>>
         ELSE /\ LET r == IF ev.type = "response" THEN OpenAIResponse(ob, ev)
                          ELSE [b |-> ob, out |-> << >>]
                 IN  /\ ob' = r.b
                     /\ oFrames' = oFrames \o r.out
                     /\ oLog' = Append(oLog, [ev |-> ev, out |-> r.out])
              /\ oTokens' = IF ev.type = "response" /\ ev.totalUsage # << >>
                              THEN ev.totalUsage ELSE oTokens
              /\ oStopReason' = IF ev.type = "end" THEN "stop" ELSE oStopReason
              /\ UNCHANGED oPc
    /\ UNCHANGED oDestroyed
    /\ UNCHANGED <<streamVars, anthVars, gatewayVars>>

\* the stream is exhausted
OpenAIStreamEnd ==
    /\ oPc = "loop"
    /\ OpenAIFinish
    /\ UNCHANGED <<oTokens, oStopReason, oLog, oDestroyed>>
    /\ UNCHANGED <<streamVars, anthVars, gatewayVars>>

\* variant: the catch block ends the response without a terminator
OpenAIStreamThrow_noDone ==
    /\ oPc = "loop"
    /\ oPc' = "failed"
    /\ UNCHANGED <<ob, oFrames, oTokens, oStopReason, oLog, oDestroyed>>
    /\ UNCHANGED <<streamVars, anthVars, gatewayVars>>

\* the stream throws: the catch block writes [DONE], res.end()
OpenAIStreamThrow ==
    /\ oPc = "loop"
    /\ oPc' = "failed"
    /\ oFrames' = oFrames \o buildDone(ob)
    /\ UNCHANGED <<ob, oTokens, oStopReason, oLog, oDestroyed>>
    /\ UNCHANGED <<streamVars, anthVars, gatewayVars>>

\* ------------------------------------------------------- error envelopes
\* what sendError and sendOpenAIError write: status line, content type, body
sendError(status, type) ==
    [status |-> status, contentType |-> "application/json",
     envelope |-> "anthropic", errorType |-> type]

sendOpenAIError(status, type) ==
    [status |-> status, contentType |-> "application/json",
     envelope |-> "openai", errorType |-> type]

NoResponse == [status |-> 0]

\* ------------------------------------------- handleNonStreamingResponse
\* toolCalls is a Map: order holds its keys in insertion order
NewNonStreaming ==
    [pc |-> "loop", ops |-> 0, textContent |-> << >>, order |-> << >>,
     toolCalls |-> << >>, inputTokens |-> 0, outputTokens |-> 0,
     stopReason |-> "complete", response |-> NoResponse,
     errors |-> 0, written |-> 0]

buildNonStreamingResponse(content, stopReason, usage) ==
    [status |-> 200, contentType |-> "application/json", type |-> "message",
     content |-> content, stop_reason |-> stopReason, usage |-> usage]

\* the locals after the case 'response' of the loop
NonStreamingResponse(s, data) ==
    LET text == IF data.content # "" THEN Append(s.textContent, data.content)
                ELSE s.textContent
        isStart == data.tool_call = "start" /\ data.tool_call_id # ""
        order1 == IF isStart /\ data.tool_call_id \notin DOMAIN s.toolCalls
                    THEN Append(s.order, data.tool_call_id) ELSE s.order
        calls1 == IF isStart
                    THEN MapSet(s.toolCalls, data.tool_call_id,
                                [name |-> ToolName, input |-> [kind |-> "empty", text |-> << >>]])
                    ELSE s.toolCalls
        isUpdate == /\ data.tool_call = "update" /\ data.tool_call_id # ""
                    /\ data.tool_call_params # << >>
                    /\ data.tool_call_id \in DOMAIN calls1
        calls2 == IF isUpdate
                    THEN [calls1 EXCEPT ![data.tool_call_id].input =
                            [kind |-> IF JsonParses(data.tool_call_params)
                                        THEN "json" ELSE "raw",
                             text |-> data.tool_call_params]]
                    ELSE calls1
    IN  [s EXCEPT !.textContent = text, !.order = order1, !.toolCalls = calls2,
                  !.inputTokens = IF data.totalUsage # << >>
                                    THEN data.totalUsage[1] ELSE @,
                  !.outputTokens = IF data.totalUsage # << >>
                                     THEN data.totalUsage[2] ELSE @]

\* the content blocks and the response built after the loop
NonStreamingBuild(s) ==
    LET textBlocks == IF s.textContent # << >>
                        THEN <<[type |-> "text", id |-> "", text |-> s.textContent]>>
                        ELSE << >>
        toolBlocks == [k \in 1..Len(s.order) |->
                         [type |-> "tool_use", id |-> s.order[k],
                          text |-> s.toolCalls[s.order[k]].input.text]]
        blocks == textBlocks \o toolBlocks
        contentBlocks == IF blocks = << >>
                           THEN <<[type |-> "text", id |-> "", text |-> << >>]>>
                           ELSE blocks
    IN  buildNonStreamingResponse(
            contentBlocks,
            IF DOMAIN s.toolCalls # {} THEN "tool_use" ELSE mapStopReason(s.stopReason),
            <<s.inputTokens, s.outputTokens>>)

\* the record of a handler after it wrote response: written counts the
\* responses written, errors the error events the loop received
Respond(s, position, response) ==
    [s EXCEPT !.pc = position, !.response = response, !.written = @ + 1]

\* variant: an error event is only noted and the loop goes on
NonStreamingEvent_swallow(ev) ==
    /\ ns.pc = "loop"
    /\ ns.ops < MaxOps
    /\ ns' = CASE ev.type = "response" ->
                    [NonStreamingResponse(ns, ev) EXCEPT !.ops = @ + 1]
               [] ev.type = "end" ->
                    [ns EXCEPT !.ops = @ + 1,
                               !.stopReason = IF ev.userStop THEN "stop_sequence"
                                              ELSE "end_turn"]
               [] ev.type = "error" ->
                    [ns EXCEPT !.ops = @ + 1, !.errors = @ + 1]
    /\ UNCHANGED <<ons, call, gw, acp, enc, srv>>
    /\ UNCHANGED <<streamVars, anthVars, openaiVars>>

\* the stream delivers an event; an error event is thrown into the catch block
NonStreamingEvent(ev) ==
    /\ ns.pc = "loop"
    /\ ns.ops < MaxOps
    /\ ns' = CASE ev.type = "response" ->
                    [NonStreamingResponse(ns, ev) EXCEPT !.ops = @ + 1]
               [] ev.type = "end" ->
                    [ns EXCEPT !.ops = @ + 1,
                               !.stopReason = IF ev.userStop THEN "stop_sequence"
                                              ELSE "end_turn"]
               [] ev.type = "error" ->
                    Respond([ns EXCEPT !.errors = @ + 1], "failed",
                            sendError(500, "api_error"))
    /\ UNCHANGED <<ons, call, gw, acp, enc, srv>>
    /\ UNCHANGED <<streamVars, anthVars, openaiVars>>

\* the stream is exhausted: the response is built and sent
NonStreamingStreamEnd ==
    /\ ns.pc = "loop"
    /\ ns' = Respond(ns, "responded", NonStreamingBuild(ns))
    /\ UNCHANGED <<ons, call, gw, acp, enc, srv>>
    /\ UNCHANGED <<streamVars, anthVars, openaiVars>>

\* the stream throws: the catch block answers 500
NonStreamingStreamThrow ==
    /\ ns.pc = "loop"
    /\ ns' = Respond(ns, "failed", sendError(500, "api_error"))
    /\ UNCHANGED <<ons, call, gw, acp, enc, srv>>
    /\ UNCHANGED <<streamVars, anthVars, openaiVars>>

\* -------------------------------------- handleOpenAINonStreamingResponse
NewOpenAINonStreaming ==
    [pc |-> "loop", ops |-> 0, textContent |-> << >>, toolCalls |-> << >>,
     toolCallBuffers |-> << >>, inputTokens |-> 0, outputTokens |-> 0,
     stopReason |-> "undefined", response |-> NoResponse,
     errors |-> 0, written |-> 0]

\* content "null" stands for a null content, tool_calls << >> for undefined
buildOpenAIResponse(content, toolCalls, finishReason, promptTokens, completionTokens) ==
    [status |-> 200, contentType |-> "application/json",
     content |-> content, tool_calls |-> toolCalls, finish_reason |-> finishReason,
     usage |-> <<promptTokens, completionTokens, promptTokens + completionTokens>>]

OpenAINonStreamingResponse(s, data) ==
    LET text == IF data.content # "" THEN Append(s.textContent, data.content)
                ELSE s.textContent
        isStart == data.tool_call = "start" /\ data.tool_call_id # ""
        buffers1 == IF isStart
                      THEN MapSet(s.toolCallBuffers, data.tool_call_id,
                                  [name |-> ToolName, args |-> << >>])
                      ELSE s.toolCallBuffers
        isUpdate == /\ data.tool_call = "update" /\ data.tool_call_id # ""
                    /\ data.tool_call_params # << >>
                    /\ data.tool_call_id \in DOMAIN buffers1
        buffers2 == IF isUpdate
                      THEN [buffers1 EXCEPT ![data.tool_call_id].args =
                                                data.tool_call_params]
                      ELSE buffers1
        calls == IF isUpdate
                   THEN Append(s.toolCalls,
                               [id |-> data.tool_call_id,
                                name |-> buffers1[data.tool_call_id].name,
                                arguments |-> data.tool_call_params])
                   ELSE s.toolCalls
    IN  [s EXCEPT !.textContent = text, !.toolCallBuffers = buffers2,
                  !.toolCalls = calls,
                  !.inputTokens = IF data.totalUsage # << >>
                                    THEN data.totalUsage[1] ELSE @,
                  !.outputTokens = IF data.totalUsage # << >>
                                     THEN data.totalUsage[2] ELSE @]

OpenAINonStreamingBuild(s) ==
    buildOpenAIResponse(
        IF s.textContent # << >> THEN s.textContent ELSE "null",
        s.toolCalls,
        mapToOpenAIFinishReason(s.stopReason, Len(s.toolCalls) > 0),
        s.inputTokens, s.outputTokens)

OpenAINonStreamingEvent(ev) ==
    /\ ons.pc = "loop"
    /\ ons.ops < MaxOps
    /\ ons' = CASE ev.type = "response" ->
                     [OpenAINonStreamingResponse(ons, ev) EXCEPT !.ops = @ + 1]
                [] ev.type = "end" ->
                     [ons EXCEPT !.ops = @ + 1, !.stopReason = "stop"]
                [] ev.type = "error" ->
                     Respond([ons EXCEPT !.errors = @ + 1], "failed",
                             sendOpenAIError(500, "api_error"))
    /\ UNCHANGED <<ns, call, gw, acp, enc, srv>>
    /\ UNCHANGED <<streamVars, anthVars, openaiVars>>

OpenAINonStreamingStreamEnd ==
    /\ ons.pc = "loop"
    /\ ons' = Respond(ons, "responded", OpenAINonStreamingBuild(ons))
    /\ UNCHANGED <<ns, call, gw, acp, enc, srv>>
    /\ UNCHANGED <<streamVars, anthVars, openaiVars>>

OpenAINonStreamingStreamThrow ==
    /\ ons.pc = "loop"
    /\ ons' = Respond(ons, "failed", sendOpenAIError(500, "api_error"))
    /\ UNCHANGED <<ns, call, gw, acp, enc, srv>>
    /\ UNCHANGED <<streamVars, anthVars, openaiVars>>

\* ------------------------------------------------------- mapClaudeModel
\* A string is the sequence of its tokens: the separators / , and blank, and
\* the maximal runs of other characters. undefined stands for an absent
\* value; no string is that token.
undefined == <<"#undefined">>

Separators == {"/", ",", " "}
Words == {"acme", "gpt", "claude-3-opus-20240229", "toString"}
ModelTokens == Separators \cup Words

SeqsUpTo(S, n) == UNION {[1..k -> S] : k \in 0..n}

\* the model strings of requests: every short string over the tokens, and some
\* longer ones
ModelStrings ==
    (SeqsUpTo(ModelTokens, MaxModelLen) \ {<< >>}) \cup
    {<<"openrouter", "/", "meta", "/", "llama">>,
     <<"acme", ",", "gpt", ",", "mini">>,
     <<"acme", " ", ",", " ", "gpt">>,
     <<"acme", ",", "gpt", "/", "mini">>}

DefaultProviderIds == {undefined, << >>, <<"p">>}
DefaultModelIds == {undefined, << >>, <<"m">>}

\* a value is truthy unless it is undefined or the empty string
Truthy(s) == s # undefined /\ s # << >>

\* String.prototype.includes for a one-character pattern
Includes(s, c) == \E i \in DOMAIN s : s[i] = c

\* the first position >= from where s holds c, 0 if none
IndexFrom(s, c, from) ==
    IF \E i \in from..Len(s) : s[i] = c
      THEN CHOOSE i \in from..Len(s) : s[i] = c /\ \A j \in from..(i - 1) : s[j] # c
      ELSE 0

\* s.split(c, 2) for s that includes c: the pieces between the occurrences of
\* c, cut down to the first two
Split2(s, c) ==
    LET i == IndexFrom(s, c, 1)
        j == IndexFrom(s, c, i + 1)
    IN  <<SubSeq(s, 1, i - 1), SubSeq(s, i + 1, IF j = 0 THEN Len(s) ELSE j - 1)>>

\* String.prototype.trim
RECURSIVE Trim(_)
Trim(s) ==
    IF s = << >> THEN s
    ELSE IF Head(s) = " " THEN Trim(Tail(s))
    ELSE IF s[Len(s)] = " " THEN Trim(SubSeq(s, 1, Len(s) - 1))
    ELSE s

\* keys of claudeModelMappings: every entry maps to provider anthropic and
\* the key itself
ClaudeModelKeys ==
    {<<"claude-3-5-sonnet-20241022">>, <<"claude-3-5-haiku-20241022">>,
     <<"claude-3-opus-20240229">>, <<"claude-3-sonnet-20240229">>,
     <<"claude-3-haiku-20240307">>, <<"claude-sonnet-4-20250514">>,
     <<"claude-opus-4-20250514">>}

\* property names claudeModelMappings inherits from Object.prototype: looking
\* one up yields a function, a truthy value without providerId and modelId
InheritedKeys == {<<"toString">>, <<"constructor">>, <<"valueOf">>, <<"hasOwnProperty">>}

Mapping(providerId, modelId) == [providerId |-> providerId, modelId |-> modelId]

\* the null result
NoMapping == [found |-> FALSE]

mapClaudeModel_slashFirst(model, defaultProviderId, defaultModelId) ==
    LET slash == Split2(model, "/")
    IN  IF Includes(model, "/") /\ slash[1] # << >> /\ slash[2] # << >>
          THEN Mapping(slash[1], slash[2])
        ELSE IF Truthy(defaultProviderId) /\ Truthy(defaultModelId)
          THEN Mapping(defaultProviderId, defaultModelId)
        ELSE NoMapping

mapClaudeModel(model, defaultProviderId, defaultModelId) ==
    LET slash == Split2(model, "/")
        comma == Split2(model, ",")
    IN  IF Truthy(defaultProviderId) /\ Truthy(defaultModelId)
          THEN Mapping(defaultProviderId, defaultModelId)
        ELSE IF Includes(model, "/") /\ slash[1] # << >> /\ slash[2] # << >>
          THEN Mapping(slash[1], slash[2])
        ELSE IF Includes(model, ",") /\ comma[1] # << >> /\ comma[2] # << >>
          THEN Mapping(Trim(comma[1]), Trim(comma[2]))
        ELSE IF model \in ClaudeModelKeys
          THEN Mapping(<<"anthropic">>, model)
        ELSE IF model \in InheritedKeys
          THEN Mapping(undefined, undefined)
        ELSE IF Truthy(defaultProviderId)
          THEN Mapping(defaultProviderId, model)
        ELSE NoMapping

\* ------------------------------------------- calls of the pure functions
\* reasons a caller can pass: the canonical ones, an unknown one, the empty
\* string and undefined
StopReasons ==
    {"complete", "stop", "end_turn", "max_tokens", "length", "tool_use",
     "tool_calls", "function_call", "stop_sequence", "content_filter", "",
     "undefined"}

NoCall == [fn |-> "none"]

CallMapStopReason ==
    /\ call = NoCall
    /\ \E reason \in StopReasons :
          call' = [fn |-> "mapStopReason", reason |-> reason,
                   result |-> mapStopReason(reason)]
    /\ UNCHANGED <<ns, ons, gw, acp, enc, srv>>
    /\ UNCHANGED <<streamVars, anthVars, openaiVars>>

CallMapToOpenAIFinishReason ==
    /\ call = NoCall
    /\ \E reason \in StopReasons, has \in BOOLEAN :
          call' = [fn |-> "mapToOpenAIFinishReason", reason |-> reason,
                   hasToolCalls |-> has,
                   result |-> mapToOpenAIFinishReason(reason, has)]
    /\ UNCHANGED <<ns, ons, gw, acp, enc, srv>>
    /\ UNCHANGED <<streamVars, anthVars, openaiVars>>

CallMapClaudeModel ==
    /\ call = NoCall
    /\ \E model \in ModelStrings, defaultProviderId \in DefaultProviderIds,
          defaultModelId \in DefaultModelIds :
          call' = [fn |-> "mapClaudeModel", model |-> model,
                   defaultProviderId |-> defaultProviderId,
                   defaultModelId |-> defaultModelId,
                   result |-> mapClaudeModel(model, defaultProviderId, defaultModelId)]
    /\ UNCHANGED <<ns, ons, gw, acp, enc, srv>>
    /\ UNCHANGED <<streamVars, anthVars, openaiVars>>

\* ------------------------------------------------- the request dispatcher
\* providers getProviderById finds; for any other id it throws
GatewayProviders == {<<"acme">>, <<"p">>}

\* config.apiKey
ApiKeys == {"undefined", "k"}

\* the Authorization header of a request: absent (<< >>), or its first seven
\* characters followed by the rest of the value
AuthorizationHeaders ==
    {<< >>, <<"Bearer ", "k">>, <<"Bearer ", "bad">>, <<"Bearer ", "">>,
     <<"Basic k", "">>}

\* the X-Api-Key header of a request
ApiKeyHeaders == {"undefined", "k", "bad"}

\* a || b of JavaScript on strings and null
OrElse(a, b) == IF a \notin {"null", ""} THEN a ELSE b

\* the key handleRequest compares with config.apiKey
providedKey(req) ==
    LET authHeader == req.authorization
        apiKeyHeader == req.xApiKey
    IN  OrElse(IF Len(authHeader) = 2 /\ authHeader[1] = "Bearer "
                 THEN authHeader[2] ELSE "null",
               IF apiKeyHeader # "undefined" THEN apiKeyHeader ELSE "null")

Methods == {"POST", "GET", "OPTIONS"}
Paths ==
    {"/v1/messages", "/v1/messages/count_tokens", "/v1/chat/completions",
     "/v1/models", "/health", "/", "/nowhere"}

\* request.model values
RequestModels ==
    {undefined, << >>, <<"acme", "/", "gpt">>, <<"gpt">>,
     <<"claude-3-opus-20240229">>, <<"toString">>}

\* request.messages: absent, a value that is not an array, [] and an array of
\* well-formed messages
MessagesValues == {"undefined", "notArray", "empty", "nonEmpty"}

\* request.max_tokens
MaxTokensValues == {"undefined", "0", "1024"}

\* the body of a request: text that JSON.parse rejects, the JSON text null, or
\* a JSON object with the fields below
ObjectBodies ==
    [json : {"object"}, model : RequestModels, messages : MessagesValues,
     max_tokens : MaxTokensValues, stream : BOOLEAN]

Bodies ==
    ObjectBodies \cup
    [json : {"malformed", "null"}, model : {undefined}, messages : {"undefined"},
     max_tokens : {"undefined"}, stream : {FALSE}]

\* the body the handler of a request reads, if it reads one
ReadsBody(method, path) ==
    method = "POST" /\ path \in {"/v1/messages", "/v1/chat/completions"}

NoBody ==
    [json |-> "malformed", model |-> undefined, messages |-> "undefined",
     max_tokens |-> "undefined", stream |-> FALSE]

Requests ==
    {req \in [method : Methods, path : Paths,
              authorization : AuthorizationHeaders, xApiKey : ApiKeyHeaders,
              body : {NoBody}] : ~ReadsBody(req.method, req.path)}
    \cup [method : {"POST"}, path : {"/v1/messages", "/v1/chat/completions"},
          authorization : AuthorizationHeaders, xApiKey : ApiKeyHeaders,
          body : Bodies]

Configs ==
    [apiKey : ApiKeys, defaultProviderId : DefaultProviderIds,
     defaultModelId : DefaultModelIds]

\* an answer of the dispatcher: the response written so far, the handler the
\* request was passed to and whether startStreamCompletion was called
Answer(response, handler, session) ==
    [response |-> response, handler |-> handler, session |-> session]

\* the request reaches a response handler, which starts the session
Dispatch(handler, stream) ==
    Answer(IF stream THEN [status |-> 200, contentType |-> "text/event-stream"]
           ELSE NoResponse,
           handler, TRUE)

\* the exception a handler lets escape lands in the catch of handleRequest
RequestError == Answer(sendError(500, "api_error"), "none", FALSE)

handleMessages(config, request) ==
    LET modelMapping == mapClaudeModel(request.model, config.defaultProviderId,
                                       config.defaultModelId)
    IN  IF request.json = "malformed" THEN
            Answer(sendError(400, "invalid_request_error"), "none", FALSE)
        ELSE IF request.json = "null" THEN RequestError
        ELSE IF ~Truthy(request.model) THEN
            Answer(sendError(400, "invalid_request_error"), "none", FALSE)
        ELSE IF request.messages \in {"undefined", "notArray"} THEN
            Answer(sendError(400, "invalid_request_error"), "none", FALSE)
        ELSE IF request.max_tokens \in {"undefined", "0"} THEN
            Answer(sendError(400, "invalid_request_error"), "none", FALSE)
        ELSE IF modelMapping = NoMapping THEN
            Answer(sendError(400, "invalid_request_error"), "none", FALSE)
        ELSE IF modelMapping.providerId \notin GatewayProviders THEN
            Answer(sendError(400, "invalid_request_error"), "none", FALSE)
        ELSE IF request.stream THEN Dispatch("handleStreamingResponse", TRUE)
        ELSE Dispatch("handleNonStreamingResponse", FALSE)

handleChatCompletions(config, request) ==
    LET modelMapping == mapClaudeModel(request.model, config.defaultProviderId,
                                       config.defaultModelId)
    IN  IF request.json = "malformed" THEN
            Answer(sendOpenAIError(400, "invalid_request_error"), "none", FALSE)
        ELSE IF request.json = "null" THEN RequestError
        ELSE IF ~Truthy(request.model) THEN
            Answer(sendOpenAIError(400, "invalid_request_error"), "none", FALSE)
        ELSE IF request.messages \in {"undefined", "notArray"} THEN
            Answer(sendOpenAIError(400, "invalid_request_error"), "none", FALSE)
        ELSE IF modelMapping = NoMapping THEN
            Answer(sendOpenAIError(400, "invalid_request_error"), "none", FALSE)
        ELSE IF modelMapping.providerId \notin GatewayProviders THEN
            Answer(sendOpenAIError(400, "invalid_request_error"), "none", FALSE)
        ELSE IF request.stream THEN Dispatch("handleOpenAIStreamingResponse", TRUE)
        ELSE Dispatch("handleOpenAINonStreamingResponse", FALSE)

handleRequest(config, req) ==
    IF req.method = "OPTIONS" THEN
        Answer([status |-> 204], "none", FALSE)
    ELSE IF config.apiKey # "undefined" /\ providedKey(req) # config.apiKey THEN
        Answer(sendError(401, "authentication_error"), "none", FALSE)
    ELSE IF req.method = "POST" /\ req.path = "/v1/messages" THEN
        handleMessages(config, req.body)
    ELSE IF req.method = "POST" /\ req.path = "/v1/messages/count_tokens" THEN
        Answer(NoResponse, "handleCountTokens", FALSE)
    ELSE IF req.method = "POST" /\ req.path = "/v1/chat/completions" THEN
        handleChatCompletions(config, req.body)
    ELSE IF req.method = "GET" /\ req.path = "/v1/models" THEN
        Answer(NoResponse, "handleListModels", FALSE)
    ELSE IF req.method = "GET" /\ req.path = "/health" THEN
        Answer([status |-> 200, contentType |-> "application/json"],
               "handleHealth", FALSE)
    ELSE IF req.method = "GET" /\ req.path = "/" THEN
        Answer([status |-> 200, contentType |-> "application/json"],
               "handleRoot", FALSE)
    ELSE Answer(sendError(404, "not_found"), "none", FALSE)

NoRequest == [handled |-> FALSE]

\* a request arrives at a server with the given configuration
HandleRequest ==
    /\ gw = NoRequest
    /\ \E config \in Configs, req \in Requests :
          gw' = [handled |-> TRUE, config |-> config, req |-> req,
                 answer |-> handleRequest(config, req)]
    /\ UNCHANGED <<ns, ons, call, acp, enc, srv>>
    /\ UNCHANGED <<streamVars, anthVars, openaiVars>>

\* ------------------------------------------------ resolveAgentPermission
MaxResolves == 3

\* requestIds of permission chunks; each is issued once
RequestIds == {"r1", "r2", "r3"}

\* pending: the requestIds awaiting a decision; issued: those ever issued;
\* delivered: the decisions handed to the suspended continuation of each
\* request; log: the calls of resolveAgentPermission
NoPermissions ==
    [pending |-> {}, issued |-> {},
     delivered |-> [r \in RequestIds |-> << >>], log |-> << >>]

\* a provider chunk of type permission: the stream yields permission-required
\* with the requestId, and the request is pending
PermissionRequired(requestId) ==
    /\ requestId \notin acp.issued
    /\ acp' = [acp EXCEPT !.pending = @ \cup {requestId},
                          !.issued = @ \cup {requestId}]
    /\ UNCHANGED <<ns, ons, call, gw, enc, srv>>
    /\ UNCHANGED <<streamVars, anthVars, openaiVars>>

\* AcpProvider.resolvePermissionRequest: a pending request is handed the
\* decision and removed; any other requestId fails and changes nothing
resolvePermissionRequest(table, requestId, granted) ==
    IF requestId \in table.pending
      THEN [table |-> [table EXCEPT !.pending = @ \ {requestId},
                                    !.delivered[requestId] = Append(@, granted)],
            outcome |-> "resolved"]
      ELSE [table |-> table, outcome |-> "error"]

\* variant: without an ACP provider instance the call returns normally
resolveAgentPermission_silent(table, available, requestId, granted) ==
    IF ~available THEN [table |-> table, outcome |-> "resolved"]
    ELSE resolvePermissionRequest(table, requestId, granted)

\* resolveAgentPermission: without an ACP provider instance it throws, else it
\* awaits provider.resolvePermissionRequest
resolveAgentPermission(table, available, requestId, granted) ==
    IF ~available THEN [table |-> table, outcome |-> "error"]
    ELSE resolvePermissionRequest(table, requestId, granted)

ResolveAgentPermission(requestId, granted) ==
    /\ Len(acp.log) < MaxResolves
    /\ \E available \in BOOLEAN :
          LET r == resolveAgentPermission(acp, available, requestId, granted)
          IN  acp' = [r.table EXCEPT !.log =
                          Append(@, [requestId |-> requestId, granted |-> granted,
                                     available |-> available, outcome |-> r.outcome,
                                     before |-> acp.pending,
                                     after |-> r.table.pending])]
    /\ UNCHANGED <<ns, ons, call, gw, enc, srv>>
    /\ UNCHANGED <<streamVars, anthVars, openaiVars>>

\* ------------------------------------ two streaming responses at a time
MaxConcurrentOps == 2

\* the two requests being answered
Responses == {1, 2}

\* the events their streams deliver
ConcurrentEvents ==
    TextEvents \cup StartEvents \cup UsageEvents
    \cup {AgentEvent("response", "", "update", "t1", F_open, << >>, FALSE),
          AgentEvent("response", "", "update", "t1", F_close, << >>, FALSE),
          AgentEvent("response", "", "update", "t2", F_whole, << >>, FALSE),
          AgentEvent("end", "", "none", "", << >>, << >>, FALSE)}

IdleResponse ==
    [kind |-> "none", pc |-> "idle", builder |-> << >>, frames |-> << >>,
     tokens |-> <<0, 0>>, stopReason |-> "undefined", log |-> << >>]

\* the locals of a streaming handler when it enters its loop: the builder it
\* constructed and the frames written so far
StreamingBegun(kind) ==
    IF kind = "anthropic"
      THEN [kind |-> kind, pc |-> "loop", builder |-> NewStreamingResponseBuilder,
            frames |-> getInitialEvents(NewStreamingResponseBuilder),
            tokens |-> <<0, 0>>, stopReason |-> "undefined", log |-> << >>]
      ELSE [kind |-> kind, pc |-> "loop", builder |-> NewOpenAIStreamingBuilder,
            frames |-> buildInitialChunk(NewOpenAIStreamingBuilder),
            tokens |-> <<0, 0>>, stopReason |-> "undefined", log |-> << >>]

\* one pass of the loop of a handler over event ev, with builder b
StreamingHandled(st, b, ev) ==
    LET r == IF st.kind = "anthropic" THEN AnthHandle(b, ev)
             ELSE IF ev.type = "response" THEN OpenAIResponse(b, ev)
             ELSE [b |-> b, out |-> << >>]
    IN  [st EXCEPT !.builder = r.b,
                   !.frames = @ \o r.out,
                   !.tokens = IF ev.type = "response" /\ ev.totalUsage # << >>
                                THEN ev.totalUsage ELSE @,
                   !.stopReason = IF ev.type = "end" /\ st.kind = "openai"
                                    THEN "stop" ELSE @,
                   !.log = Append(@, ev)]

\* after the loop: usage, the final frames, res.end()
StreamingFinished(st) ==
    IF st.kind = "anthropic"
      THEN LET b == setUsage(st.builder, st.tokens[1], st.tokens[2])
           IN  [st EXCEPT !.pc = "ended", !.builder = b,
                          !.frames = @ \o getFinalEvents(b)]
      ELSE LET b == [st.builder EXCEPT !.usage = st.tokens]
           IN  [st EXCEPT !.pc = "ended", !.builder = b,
                          !.frames = @ \o buildFinalChunk(b,
                                              mapToOpenAIFinishReason(
                                                  st.stopReason,
                                                  hasToolCalls(st.builder)))
                                       \o buildDone(st.builder)]

\* a streaming handler is entered for request r
StreamingBegin(r, kind) ==
    /\ enc[r].pc = "idle"
    /\ enc' = [enc EXCEPT ![r] = StreamingBegun(kind)]
    /\ UNCHANGED <<ns, ons, call, gw, acp, srv>>
    /\ UNCHANGED <<streamVars, anthVars, openaiVars>>

\* variant: the handlers of one format work on one builder
StreamingEvent_sharedBuilder(r, ev) ==
    /\ enc[r].pc = "loop"
    /\ Len(enc[r].log) < MaxConcurrentOps
    /\ LET other == CHOOSE q \in Responses : q # r
           shared == IF enc[other].kind = enc[r].kind /\ enc[other].pc = "loop"
                       THEN enc[other].builder ELSE enc[r].builder
           st == StreamingHandled(enc[r], shared, ev)
       IN  enc' = [q \in Responses |->
                      IF q = r THEN st
                      ELSE IF enc[q].kind = enc[r].kind /\ enc[q].pc = "loop"
                        THEN [enc[q] EXCEPT !.builder = st.builder]
                      ELSE enc[q]]
    /\ UNCHANGED <<ns, ons, call, gw, acp, srv>>
    /\ UNCHANGED <<streamVars, anthVars, openaiVars>>

\* the stream of request r delivers an event to its handler
StreamingEvent(r, ev) ==
    /\ enc[r].pc = "loop"
    /\ Len(enc[r].log) < MaxConcurrentOps
    /\ enc' = [enc EXCEPT ![r] = StreamingHandled(enc[r], enc[r].builder, ev)]
    /\ UNCHANGED <<ns, ons, call, gw, acp, srv>>
    /\ UNCHANGED <<streamVars, anthVars, openaiVars>>

\* the stream of request r is exhausted
StreamingEnd(r) ==
    /\ enc[r].pc = "loop"
    /\ enc' = [enc EXCEPT ![r] = StreamingFinished(enc[r])]
    /\ UNCHANGED <<ns, ons, call, gw, acp, srv>>
    /\ UNCHANGED <<streamVars, anthVars, openaiVars>>

\* --------------------------------------------------- start, stop, getStatus
\* the http servers one presenter creates in its life time
MaxServers == 3
Servers == 1..MaxServers

\* server 0 stands for null. http[k] is the state of the k-th server created:
\* none (not created), binding (listen called), listening, failed (the error
\* event was emitted), closing (close called, the handle is released), closed.
\* closing holds the servers whose close callback has not run yet; stopped
\* says that a stop() resolved and no server was created since; overlapped
\* that start() or stop() was called while an earlier call was unfinished.
NewPresenter ==
    [server |-> 0, isRunning |-> FALSE, http |-> [k \in Servers |-> "none"],
     closing |-> {}, stopped |-> FALSE, overlapped |-> FALSE]

\* the servers that accept connections
Listening(p) == {k \in Servers : p.http[k] = "listening"}

\* no listen and no close is under way
Quiescent(p) == p.closing = {} /\ \A k \in Servers : p.http[k] # "binding"

\* getStatus().isRunning
getStatus(p) == p.isRunning

\* start(): returns at once when isRunning, else creates a server, stores it
\* in this.server and calls listen
ServerStart ==
    /\ srv.isRunning \/ \E k \in Servers : srv.http[k] = "none"
    /\ srv' = IF srv.isRunning THEN srv
              ELSE LET k == CHOOSE j \in Servers :
                                /\ srv.http[j] = "none"
                                /\ \A i \in 1..(j - 1) : srv.http[i] # "none"
                   IN  [srv EXCEPT !.server = k, !.http[k] = "binding",
                                   !.stopped = FALSE,
                                   !.overlapped = @ \/ ~Quiescent(srv)]
    /\ UNCHANGED <<ns, ons, call, gw, acp, enc>>
    /\ UNCHANGED <<streamVars, anthVars, openaiVars>>

\* server k is bound and its listen callback runs; the port is free only
\* while no other server holds it
ServerListening(k) ==
    /\ srv.http[k] = "binding"
    /\ Listening(srv) = {}
    /\ srv' = [srv EXCEPT !.http[k] = "listening", !.isRunning = TRUE]
    /\ UNCHANGED <<ns, ons, call, gw, acp, enc>>
    /\ UNCHANGED <<streamVars, anthVars, openaiVars>>

\* server k emits error (the port is in use, here or by another process):
\* the promise of its start() is rejected
ServerError(k) ==
    /\ srv.http[k] = "binding"
    /\ srv' = [srv EXCEPT !.http[k] = "failed"]
    /\ UNCHANGED <<ns, ons, call, gw, acp, enc>>
    /\ UNCHANGED <<streamVars, anthVars, openaiVars>>

\* stop(): returns at once when this.server is null, else calls close on
\* this.server. close releases the handle of a listening server; on a server
\* that is still binding it either cancels the bind or comes too early for it.
ServerStop ==
    /\ IF srv.server = 0 THEN srv' = srv
       ELSE \E cancels \in BOOLEAN :
              srv' = [srv EXCEPT
                        !.http[srv.server] =
                            IF @ = "listening" \/ (@ = "binding" /\ cancels)
                              THEN "closing" ELSE @,
                        !.closing = @ \cup {srv.server},
                        !.overlapped = @ \/ ~Quiescent(srv)]
    /\ UNCHANGED <<ns, ons, call, gw, acp, enc>>
    /\ UNCHANGED <<streamVars, anthVars, openaiVars>>

\* the close callback of server k runs and stop() resolves
ServerClosed(k) ==
    /\ k \in srv.closing
    /\ srv' = [srv EXCEPT !.http[k] = IF @ = "closing" THEN "closed" ELSE @,
                          !.closing = @ \ {k},
                          !.isRunning = FALSE,
                          !.server = 0,
                          !.stopped = TRUE]
    /\ UNCHANGED <<ns, ons, call, gw, acp, enc>>
    /\ UNCHANGED <<streamVars, anthVars, openaiVars>>

InitGateway ==
    /\ ns = NewNonStreaming
    /\ ons = NewOpenAINonStreaming
    /\ call = NoCall
    /\ gw = NoRequest
    /\ acp = NoPermissions
    /\ enc = [r \in Responses |-> IdleResponse]
    /\ srv = NewPresenter

\* ------------------------------------------------ the request normalizers
\* A text is the sequence of its characters. The content of a message is a
\* string or an array: typeof and Array.isArray read the tag.
MaxBlocks == 2
MaxMessages == 2

Texts == {<< >>, <<"h", "i">>, <<"h", "e", "l", "l", "o">>}

Str(text) == [type |-> "string", value |-> text]
Arr(items) == [type |-> "array", value |-> items]

\* content blocks of the Anthropic wire format
TextBlock(text) == [type |-> "text", text |-> text]
ImageBlock(sourceType) == [type |-> "image", source |-> sourceType]
ToolUseBlock(id) == [type |-> "tool_use", id |-> id]
ToolResultBlock(id, content) ==
    [type |-> "tool_result", tool_use_id |-> id, content |-> content]

TextBlocks == {TextBlock(text) : text \in Texts}

ClaudeBlocks ==
    TextBlocks
    \cup {ImageBlock(sourceType) : sourceType \in {"base64", "url"}}
    \cup {ToolUseBlock("t1")}
    \cup {ToolResultBlock(id, content) :
              id \in ToolIds,
              content \in {Str(<<"h", "i">>), Arr(<<TextBlock(<<"h", "i">>)>>)}}

ClaudeContents ==
    {Str(text) : text \in Texts}
    \cup {Arr(blocks) : blocks \in SeqsUpTo(ClaudeBlocks, MaxBlocks)}

\* parts of the canonical ChatMessage content
TextPart(text) == [type |-> "text", text |-> text]
ImageUrlPart(url) == [type |-> "image_url", url |-> url]

\* the data: URL a base64 image source is turned into
DataUrl == <<"d", "a", "t", "a", ":">>

\* the loop of convertUserMessage over msg.content
RECURSIVE ClaudeContentParts(_)
ClaudeContentParts(blocks) ==
    IF blocks = << >> THEN << >>
    ELSE LET block == Head(blocks)
             contentParts == ClaudeContentParts(Tail(blocks))
         IN  IF block.type = "text" THEN <<TextPart(block.text)>> \o contentParts
             ELSE IF block.type = "image" /\ block.source = "base64"
               THEN <<ImageUrlPart(DataUrl)>> \o contentParts
             ELSE contentParts

\* variant: a single text part is left in its array
convertUserMessage_noCollapse(msg) ==
    IF msg.content.type = "string" THEN [role |-> "user", content |-> msg.content]
    ELSE [role |-> "user", content |-> Arr(ClaudeContentParts(msg.content.value))]

\* convertUserMessage of the Anthropic normalizer
convertUserMessage(msg) ==
    IF msg.content.type = "string" THEN [role |-> "user", content |-> msg.content]
    ELSE LET contentParts == ClaudeContentParts(msg.content.value)
         IN  IF Len(contentParts) = 1 /\ contentParts[1].type = "text"
               THEN [role |-> "user", content |-> Str(contentParts[1].text)]
               ELSE [role |-> "user", content |-> Arr(contentParts)]

\* content parts of the OpenAI wire format; content may also be null
OpenAIParts ==
    {TextPart(text) : text \in Texts}
    \cup {ImageUrlPart(url) : url \in {DataUrl, <<"h", "t", "t", "p">>}}
    \cup {[type |-> "input_audio"]}

OpenAIContents ==
    {Str(text) : text \in Texts}
    \cup {Arr(parts) : parts \in SeqsUpTo(OpenAIParts, MaxBlocks)}
    \cup {[type |-> "null"]}

RECURSIVE OpenAIContentParts(_)
OpenAIContentParts(parts) ==
    IF parts = << >> THEN << >>
    ELSE LET part == Head(parts)
             contentParts == OpenAIContentParts(Tail(parts))
         IN  IF part.type = "text" THEN <<TextPart(part.text)>> \o contentParts
             ELSE IF part.type = "image_url"
               THEN <<ImageUrlPart(part.url)>> \o contentParts
             ELSE contentParts

\* convertUserMessage of the OpenAI normalizer
openaiConvertUserMessage(msg) ==
    IF msg.content.type = "string" THEN [role |-> "user", content |-> msg.content]
    ELSE IF msg.content.type = "array" THEN
        LET contentParts == OpenAIContentParts(msg.content.value)
        IN  IF Len(contentParts) = 1 /\ contentParts[1].type = "text"
              THEN [role |-> "user", content |-> Str(contentParts[1].text)]
              ELSE [role |-> "user", content |-> Arr(contentParts)]
    ELSE [role |-> "user", content |-> Str(<< >>)]

\* one call of convertUserMessage of either normalizer
CallConvertUserMessage ==
    /\ call = NoCall
    /\ \E content \in ClaudeContents :
          LET msg == [role |-> "user", content |-> content]
          IN  call' = [fn |-> "convertUserMessage", msg |-> msg,
                       result |-> convertUserMessage(msg)]
    /\ UNCHANGED <<ns, ons, gw, acp, enc, srv>>
    /\ UNCHANGED <<streamVars, anthVars, openaiVars>>

CallOpenAIConvertUserMessage ==
    /\ call = NoCall
    /\ \E content \in OpenAIContents :
          LET msg == [role |-> "user", content |-> content]
          IN  call' = [fn |-> "openaiConvertUserMessage", msg |-> msg,
                       result |-> openaiConvertUserMessage(msg)]
    /\ UNCHANGED <<ns, ons, gw, acp, enc, srv>>
    /\ UNCHANGED <<streamVars, anthVars, openaiVars>>

\* ---------------------------------------------- convertClaudeToInternal
\* request.system: absent, a string, or an array of text blocks
Systems ==
    {[type |-> "undefined"], Str(<< >>), Str(<<" ">>), Str(<<"h", "i">>),
     Arr(<<TextBlock(<<"h", "i">>), TextBlock(<<"h", "i">>)>>)}

AssistantContents ==
    {Str(<<"h", "i">>), Arr(<<TextBlock(<<"h", "i">>), ToolUseBlock("t1")>>)}

ClaudeMessages ==
    [role : {"user"}, content : ClaudeContents]
    \cup [role : {"assistant"}, content : AssistantContents]

ClaudeRequests ==
    [system : Systems, messages : SeqsUpTo(ClaudeMessages, MaxMessages)]

\* the texts of the text blocks of blocks, joined with separator
RECURSIVE JoinTexts(_, _)
JoinTexts(blocks, separator) ==
    LET texts == SelectSeq(blocks, LAMBDA block : block.type = "text")
    IN  IF texts = << >> THEN << >>
        ELSE IF Len(texts) = 1 THEN texts[1].text
        ELSE texts[1].text \o separator \o JoinTexts(Tail(texts), separator)

\* JSON.stringify of an array of blocks: the texts between brackets
JSONstringify(blocks) == <<"[">> \o JoinTexts(blocks, <<",">>) \o <<"]">>

\* the system message pushed first, if any
SystemMessages(system) ==
    LET systemText == IF system.type = "string" THEN system.value
                      ELSE IF system.type = "array"
                        THEN JoinTexts(system.value, <<"\n", "\n">>)
                      ELSE << >>
    IN  IF Trim(systemText) # << >>
          THEN <<[role |-> "system", content |-> Str(Trim(systemText))]>>
          ELSE << >>

ToolMessage(result) ==
    [role |-> "tool",
     content |-> IF result.content.type = "string" THEN result.content
                 ELSE Str(JSONstringify(result.content.value)),
     tool_call_id |-> result.tool_use_id]

\* variant: only the first tool_result of a turn is turned into a message
ToolMessages_firstOnly(content) ==
    IF content.type # "array" THEN << >>
    ELSE LET toolResults ==
                 SelectSeq(content.value, LAMBDA block : block.type = "tool_result")
         IN  IF toolResults = << >> THEN << >> ELSE <<ToolMessage(toolResults[1])>>

\* the tool messages pushed after the user message of a turn
ToolMessages(content) ==
    IF content.type # "array" THEN << >>
    ELSE LET toolResults ==
                 SelectSeq(content.value, LAMBDA block : block.type = "tool_result")
         IN  [k \in 1..Len(toolResults) |-> ToolMessage(toolResults[k])]

\* convertAssistantMessage of the Anthropic normalizer; content "null" is null
convertAssistantMessage(msg) ==
    IF msg.content.type = "string"
      THEN [role |-> "assistant", content |-> msg.content, tool_calls |-> << >>]
    ELSE LET joined == JoinTexts(msg.content.value, << >>)
             uses == SelectSeq(msg.content.value, LAMBDA block : block.type = "tool_use")
         IN  [role |-> "assistant",
              content |-> IF joined # << >> THEN Str(joined) ELSE [type |-> "null"],
              tool_calls |-> [k \in 1..Len(uses) |-> [id |-> uses[k].id]]]

\* the loop over request.messages
RECURSIVE ConvertMessages(_)
ConvertMessages(msgs) ==
    IF msgs = << >> THEN << >>
    ELSE LET msg == Head(msgs)
         IN  (IF msg.role = "user"
                THEN <<convertUserMessage(msg)>> \o ToolMessages(msg.content)
              ELSE IF msg.role = "assistant" THEN <<convertAssistantMessage(msg)>>
              ELSE << >>)
             \o ConvertMessages(Tail(msgs))

convertClaudeToInternal(request) ==
    [messages |-> SystemMessages(request.system) \o ConvertMessages(request.messages),
     tools |-> << >>]

CallConvertClaudeToInternal ==
    /\ call = NoCall
    /\ \E request \in ClaudeRequests :
          call' = [fn |-> "convertClaudeToInternal", request |-> request,
                   result |-> convertClaudeToInternal(request)]
    /\ UNCHANGED <<ns, ons, gw, acp, enc, srv>>
    /\ UNCHANGED <<streamVars, anthVars, openaiVars>>

\* --------------------------------------------------- handleCountTokens
\* the body of a count_tokens request: text JSON.parse rejects, an object
\* without messages, or an object with system and messages
TokenCountBodies ==
    [json : {"malformed", "noMessages"}, system : {[type |-> "undefined"]},
     messages : {<< >>}]
    \cup [json : {"object"}, system : Systems,
          messages : SeqsUpTo(ClaudeMessages, MaxMessages)]

\* the sum of block.text.length over the text blocks of blocks
RECURSIVE TextBlockChars(_)
TextBlockChars(blocks) ==
    IF blocks = << >> THEN 0
    ELSE (IF Head(blocks).type = "text" THEN Len(Head(blocks).text) ELSE 0)
         + TextBlockChars(Tail(blocks))

\* what a string or an array of blocks adds to totalChars
ContentChars(content) ==
    IF content.type = "string" THEN Len(content.value)
    ELSE IF content.type = "array" THEN TextBlockChars(content.value)
    ELSE 0

RECURSIVE MessagesChars(_)
MessagesChars(msgs) ==
    IF msgs = << >> THEN 0
    ELSE ContentChars(Head(msgs).content) + MessagesChars(Tail(msgs))

Max(a, b) == IF a >= b THEN a ELSE b

\* variant: the estimate without its lower limit
handleCountTokens_noMinimum(request) ==
    IF request.json = "malformed" THEN sendError(400, "invalid_request_error")
    ELSE IF request.json = "noMessages" THEN sendError(500, "api_error")
    ELSE LET totalChars == ContentChars(request.system) + MessagesChars(request.messages)
         IN  [status |-> 200, contentType |-> "application/json",
              input_tokens |-> totalChars \div 4]

\* the response of handleCountTokens; iterating over the missing messages of
\* a body throws, and the catch of handleRequest answers 500
handleCountTokens(request) ==
    IF request.json = "malformed" THEN sendError(400, "invalid_request_error")
    ELSE IF request.json = "noMessages" THEN sendError(500, "api_error")
    ELSE LET totalChars == ContentChars(request.system) + MessagesChars(request.messages)
             estimatedTokens == Max(1, totalChars \div 4)
         IN  [status |-> 200, contentType |-> "application/json",
              input_tokens |-> estimatedTokens]

CallHandleCountTokens ==
    /\ call = NoCall
    /\ \E request \in TokenCountBodies :
          call' = [fn |-> "handleCountTokens", request |-> request,
                   result |-> handleCountTokens(request)]
    /\ UNCHANGED <<ns, ons, gw, acp, enc, srv>>
    /\ UNCHANGED <<streamVars, anthVars, openaiVars>>

\* ---------------------------------------------------- handleListModels
MaxProviders == 3

\* what getModelList(provider.id) does: it returns a list of models or throws
ModelLists ==
    [ok : {TRUE}, models : {<< >>, <<"m">>, <<"m", "n">>}]
    \cup [ok : {FALSE}, models : {<< >>}]

\* a provider of getProviders(), with the outcome of fetching its models
ListedProviders == [id : {"p", "q"}, enable : BOOLEAN, list : ModelLists]

\* getProviders() returns the providers, or throws ("throws")
ProviderListings ==
    [ok : {TRUE}, providers : SeqsUpTo(ListedProviders, MaxProviders)]
    \cup [ok : {FALSE}, providers : {<< >>}]

\* the entries pushed for the models of one provider
ModelEntries(provider, providerModels) ==
    [k \in 1..Len(providerModels) |->
        [id |-> <<provider.id, "/", providerModels[k]>>, object |-> "model",
         owned_by |-> provider.id]]

\* the loop over the providers from position i on: the models pushed and the
\* positions of the providers getModelList was called for
RECURSIVE FetchModels(_, _)
FetchModels(providers, i) ==
    IF i > Len(providers) THEN [models |-> << >>, queried |-> << >>]
    ELSE LET provider == providers[i]
             rest == FetchModels(providers, i + 1)
         IN  IF ~provider.enable THEN rest
             ELSE [models |-> (IF provider.list.ok
                                 THEN ModelEntries(provider, provider.list.models)
                                 ELSE << >>) \o rest.models,
                   queried |-> <<i>> \o rest.queried]

\* variant: the failure of one provider fails the request
handleListModels_allOrNothing(listing) ==
    IF ~listing.ok
      THEN [response |-> sendError(500, "api_error"), queried |-> << >>]
    ELSE LET fetched == FetchModels(listing.providers, 1)
         IN  IF \E i \in DOMAIN listing.providers :
                    listing.providers[i].enable /\ ~listing.providers[i].list.ok
               THEN [response |-> sendError(500, "api_error"),
                     queried |-> fetched.queried]
               ELSE [response |-> [status |-> 200, contentType |-> "application/json",
                                   object |-> "list", data |-> fetched.models],
                     queried |-> fetched.queried]

handleListModels(listing) ==
    IF ~listing.ok
      THEN [response |-> sendError(500, "api_error"), queried |-> << >>]
    ELSE LET fetched == FetchModels(listing.providers, 1)
         IN  [response |-> [status |-> 200, contentType |-> "application/json",
                            object |-> "list", data |-> fetched.models],
              queried |-> fetched.queried]

CallHandleListModels ==
    /\ call = NoCall
    /\ \E listing \in ProviderListings :
          call' = [fn |-> "handleListModels", listing |-> listing,
                   result |-> handleListModels(listing)]
    /\ UNCHANGED <<ns, ons, gw, acp, enc, srv>>
    /\ UNCHANGED <<streamVars, anthVars, openaiVars>>

\* ------------------------------------------------------- specifications
Init == InitStreams /\ InitAnthropic /\ InitOpenAI /\ InitGateway

\* the registry under stopStream and setMaxConcurrentStreams
Next ==
    \/ SessionStep
    \/ \E e \in EventIds : StopStream(e)
    \/ \E max \in 1..MaxCeiling : setMaxConcurrentStreams(max)

Spec == Init /\ [][Next]_vars

\* the registry under setCurrentProvider (stopAllStreams)
NextStopAll ==
    \/ SessionStep
    \/ \E p \in ProviderIds : SetCurrentProviderCall(p)
    \/ SetCurrentProviderResume

SpecStopAll == Init /\ [][NextStopAll]_vars

\* one Anthropic streaming response (POST /v1/messages with stream)
NextAnthropic ==
    \/ AnthBegin
    \/ AnthClientGone
    \/ \E ev \in GatewayEvents : AnthEvent(ev)
    \/ AnthStreamEnd
    \/ AnthStreamThrow

SpecAnthropic == Init /\ [][NextAnthropic]_vars

\* one OpenAI streaming response (POST /v1/chat/completions with stream)
NextOpenAI ==
    \/ OpenAIBegin
    \/ OpenAIClientGone
    \/ \E ev \in GatewayEvents : OpenAIEvent(ev)
    \/ OpenAIStreamEnd
    \/ OpenAIStreamThrow

SpecOpenAI == Init /\ [][NextOpenAI]_vars

\* one Anthropic non-streaming response (POST /v1/messages without stream)
NextNonStreaming ==
    \/ \E ev \in GatewayEvents : NonStreamingEvent(ev)
    \/ NonStreamingStreamEnd
    \/ NonStreamingStreamThrow

SpecNonStreaming == Init /\ [][NextNonStreaming]_vars

\* one OpenAI non-streaming response (POST /v1/chat/completions without stream)
NextOpenAINonStreaming ==
    \/ \E ev \in GatewayEvents : OpenAINonStreamingEvent(ev)
    \/ OpenAINonStreamingStreamEnd
    \/ OpenAINonStreamingStreamThrow

SpecOpenAINonStreaming == Init /\ [][NextOpenAINonStreaming]_vars

\* one non-streaming response of each format, side by side
NextNonStreamingHandlers ==
    \/ \E ev \in GatewayEvents : NonStreamingEvent(ev)
    \/ NonStreamingStreamEnd
    \/ NonStreamingStreamThrow
    \/ \E ev \in GatewayEvents : OpenAINonStreamingEvent(ev)
    \/ OpenAINonStreamingStreamEnd
    \/ OpenAINonStreamingStreamThrow

SpecNonStreamingHandlers == Init /\ [][NextNonStreamingHandlers]_vars

\* one call of a stop-reason mapping or of the model router
NextFunctions ==
    \/ CallMapStopReason
    \/ CallMapToOpenAIFinishReason
    \/ CallMapClaudeModel

SpecFunctions == Init /\ [][NextFunctions]_vars

\* one call of convertUserMessage, of the Anthropic or of the OpenAI normalizer
NextUserMessage ==
    \/ CallConvertUserMessage
    \/ CallOpenAIConvertUserMessage

SpecUserMessage == Init /\ [][NextUserMessage]_vars

\* one call of convertClaudeToInternal
NextClaudeToInternal == CallConvertClaudeToInternal

SpecClaudeToInternal == Init /\ [][NextClaudeToInternal]_vars

\* one POST /v1/messages/count_tokens
NextCountTokens == CallHandleCountTokens

SpecCountTokens == Init /\ [][NextCountTokens]_vars

\* one GET /v1/models
NextListModels == CallHandleListModels

SpecListModels == Init /\ [][NextListModels]_vars

\* permissions asked for by provider streams and decided by callers
NextPermissions ==
    \/ \E requestId \in RequestIds : PermissionRequired(requestId)
    \/ \E requestId \in RequestIds, granted \in BOOLEAN :
          ResolveAgentPermission(requestId, granted)

SpecPermissions == Init /\ [][NextPermissions]_vars

\* two streaming requests answered at the same time
NextConcurrent ==
    \/ \E r \in Responses, kind \in {"anthropic", "openai"} : StreamingBegin(r, kind)
    \/ \E r \in Responses, ev \in ConcurrentEvents : StreamingEvent(r, ev)
    \/ \E r \in Responses : StreamingEnd(r)

SpecConcurrent == Init /\ [][NextConcurrent]_vars

\* start() and stop() of one presenter, called in any order
NextServer ==
    \/ ServerStart
    \/ \E k \in Servers : ServerListening(k)
    \/ \E k \in Servers : ServerError(k)
    \/ ServerStop
    \/ \E k \in Servers : ServerClosed(k)

SpecServer == Init /\ [][NextServer]_vars

\* one request through the dispatcher
NextGateway == HandleRequest

SpecGateway == Init /\ [][NextGateway]_vars

\* ================================================================== claims
\* ----------------------------------------- helpers over a session's events
TypeCount(seq, ty) == Cardinality({i \in DOMAIN seq : seq[i].type = ty})

EndCount(s) == TypeCount(events[s], "end")

\* the finally block of the session has run
Exited(s) == pc[s] \in {"yieldedEnd", "done", "threw"}

\* the generator has completed under a consumer that never left its loop
Exhausted(s) == pc[s] \in {"done", "threw"} /\ consumer[s] = "iterating"

\* C1: once stopStream was invoked on a registered session, the session yields
\* no response event any more, every end event it yields carries
\* userStop = TRUE, and when its producing loop has exited it has yielded
\* exactly one end event.
C1_StopYieldsOneUserStopEnd ==
    \A s \in Sessions : aborted[s] =>
        /\ \A i \in DOMAIN events[s] :
              i > stopAt[s] => events[s][i].type # "response"
        /\ \A i \in DOMAIN events[s] :
              events[s][i].type = "end" => events[s][i].userStop
        /\ EndCount(s) <= 1
        /\ Exited(s) => EndCount(s) = 1

\* C1 witness: a session that yielded a response, was stopped while registered,
\* and ran to completion with end{userStop: true} as the only later event
C1_Witness ==
    \E s \in Sessions :
        /\ aborted[s] /\ pc[s] = "done" /\ consumer[s] = "iterating"
        /\ stopAt[s] = 1 /\ Len(events[s]) = 2
        /\ events[s][1].type = "response"
        /\ events[s][2] = [type |-> "end", userStop |-> TRUE]

\* C2: the number of sessions registered in activeStreams never exceeds
\* maxConcurrentStreams.
C2_CeilingRespected ==
    Cardinality(DOMAIN activeStreams) <= maxConcurrentStreams

\* C3: a session's registry entry is removed exactly once, on every exit path:
\* once the producing loop has exited (exhaustion, cancellation, abandonment by
\* the consumer, provider exception) the delete has run once and the session is
\* not registered; before that it has not run.
C3_DeregisteredOnceOnEveryExit ==
    \A s \in Sessions :
        /\ Exited(s) => deregs[s] = 1 /\ ~Registered(s)
        /\ ~Exited(s) => deregs[s] = 0

\* C3 witness: the consumer left its loop early and the entry is gone
C3_Witness ==
    \E s \in Sessions :
        /\ pc[s] = "yieldedEnd" /\ consumer[s] = "left" /\ pending[s] = "return"
        /\ deregs[s] = 1 /\ ~Registered(s)
        /\ \E t \in Sessions : t # s /\ pc[t] = "threw" /\ deregs[t] = 1

\* the step in which stopAllStreams returns to setCurrentProvider
StopAllReturns == scpPc = "awaitStopAll" /\ scpPc' = "idle"

\* C4 (as stated): when stopAllStreams returns, every session registered when
\* it was called has delivered its end event and is no longer registered.
C4_StopAllAwaitsTermination ==
    [][StopAllReturns =>
         \A s \in stopAllTargets : ~Registered(s) /\ EndCount(s) = 1]_vars

\* C4 (amended): stopAllStreams only signals.  The call sets the abort signal
\* of every registered session and leaves activeStreams as it is; when it
\* returns, every session registered at the call has its abort signal set.
C4_StopAllOnlySignals ==
    [][/\ (scpPc = "idle" /\ scpPc' = "awaitStopAll") =>
            /\ activeStreams' = activeStreams
            /\ \A s \in MapValues(activeStreams) : aborted'[s]
       /\ StopAllReturns => \A s \in stopAllTargets : aborted[s]]_vars

\* C4 witness: every stopStream of stopAllStreams has run, its return is due,
\* and a targeted session is still registered with no end event yielded
C4_Witness ==
    /\ scpPc = "awaitStopAll"
    /\ \E s \in stopAllTargets :
          Registered(s) /\ aborted[s] /\ EndCount(s) = 0 /\ pc[s] = "yielded"

\* C5: a registered session's event stream consumed to exhaustion holds exactly
\* one end event, and it is the last event; no stream ever holds an end event
\* anywhere but last.
C5_ExactlyOneEndLast ==
    \A s \in Sessions :
        /\ \A i \in DOMAIN events[s] :
              events[s][i].type = "end" => i = Len(events[s])
        /\ Exhausted(s) =>
              /\ EndCount(s) = 1
              /\ events[s][Len(events[s])].type = "end"

\* C5 witness: the provider stream threw after a response, and the stream was
\* consumed to its end
C5_Witness ==
    \E s \in Sessions :
        /\ pc[s] = "threw" /\ consumer[s] = "iterating"
        /\ Len(events[s]) = 2 /\ events[s][1].type = "response"
        /\ events[s][2] = [type |-> "end", userStop |-> FALSE]

\* C6: a session's event stream holds at most one error event, and no response
\* event follows an error event.
C6_ErrorTerminates ==
    \A s \in Sessions :
        /\ TypeCount(events[s], "error") <= 1
        /\ \A i, j \in DOMAIN events[s] :
              (i < j /\ events[s][i].type = "error") => events[s][j].type # "response"

\* ------------------------------------------- helpers over a handler's log
\* entry e of a log is a tool_call start event for id
IsStart(e, id) ==
    e.ev.type = "response" /\ e.ev.tool_call = "start" /\ e.ev.tool_call_id = id

\* entry e is an update event for id that carries an argument fragment
IsFragment(e, id) ==
    /\ e.ev.type = "response" /\ e.ev.tool_call = "update"
    /\ e.ev.tool_call_id = id /\ e.ev.tool_call_params # << >>

\* the position of the last start of id before position k of log, 0 if none
RECURSIVE LastStartBefore(_, _, _)
LastStartBefore(log, id, k) ==
    IF k <= 1 THEN 0
    ELSE IF IsStart(log[k - 1], id) THEN k - 1
    ELSE LastStartBefore(log, id, k - 1)

\* the fragments for id at positions from..to of log, concatenated in order
RECURSIVE Fed(_, _, _, _)
Fed(log, id, from, to) ==
    IF from > to THEN << >>
    ELSE (IF IsFragment(log[from], id) THEN log[from].ev.tool_call_params ELSE << >>)
            \o Fed(log, id, from + 1, to)

\* C7: handleToolCallChunk emits one input_json_delta, carrying the whole
\* buffer, exactly when the fragments received for a registered id since its
\* registration concatenate to parseable JSON, and nothing otherwise (nothing
\* for an unregistered id); {"a": gives no delta, then 1} gives one delta
\* holding {"a":1}.
C7_DeltaOnlyWhenBufferParses ==
    \A k \in DOMAIN aLog, id \in ToolIds :
        IsFragment(aLog[k], id) =>
            LET s0 == LastStartBefore(aLog, id, k)
                acc == Fed(aLog, id, s0 + 1, k)
                out == aLog[k].out
            IN  IF s0 = 0 THEN out = << >>
                ELSE /\ JsonParses(acc) =>
                          out = <<buildInputJsonDeltaEvent(aLog[s0].out[1].index, acc)>>
                     /\ ~JsonParses(acc) => out = << >>
                     /\ acc = <<"{", "\"", "a", "\"", ":">> => out = << >>
                     /\ acc = <<"{", "\"", "a", "\"", ":", "1", "}">> =>
                          /\ Len(out) = 1
                          /\ out[1].sub = "input_json_delta"
                          /\ out[1].data = <<"{", "\"", "a", "\"", ":", "1", "}">>

\* C7 witness: after a start, {"a": wrote nothing and 1} wrote the one delta
C7_Witness ==
    /\ Len(aLog) = 3
    /\ IsStart(aLog[1], "t1")
    /\ IsFragment(aLog[2], "t1") /\ aLog[2].ev.tool_call_params = F_open
    /\ aLog[2].out = << >>
    /\ IsFragment(aLog[3], "t1") /\ aLog[3].ev.tool_call_params = F_close
    /\ Len(aLog[3].out) = 1 /\ aLog[3].out[1].data = F_whole

IsArgsChunk(c) == c.delta = "tool_call_args"

\* the fragments of the update events of log whose id was started before them
RECURSIVE ForwardedFragments(_, _)
ForwardedFragments(log, k) ==
    IF k = 0 THEN << >>
    ELSE ForwardedFragments(log, k - 1)
           \o (IF \E id \in ToolIds :
                     IsFragment(log[k], id) /\ LastStartBefore(log, id, k) # 0
                 THEN <<log[k].ev.tool_call_params>> ELSE << >>)

\* C8: in the OpenAI encoder every argument fragment for a registered id
\* writes exactly one chunk that carries that fragment verbatim, so the
\* argument chunks written are, in order, the fragments received.
C8_FragmentsForwardedVerbatim ==
    /\ \A k \in DOMAIN oLog, id \in ToolIds :
          (IsFragment(oLog[k], id) /\ LastStartBefore(oLog, id, k) # 0) =>
              /\ Len(oLog[k].out) = 1
              /\ oLog[k].out[1].delta = "tool_call_args"
              /\ oLog[k].out[1].arguments = oLog[k].ev.tool_call_params
              /\ oLog[k].out[1].index =
                    oLog[LastStartBefore(oLog, id, k)].out[1].index
    /\ LET written == SelectSeq(oFrames, IsArgsChunk)
       IN  [i \in 1..Len(written) |-> written[i].arguments]
              = ForwardedFragments(oLog, Len(oLog))

\* C8 witness: {"a": and 1} were forwarded as two chunks
C8_Witness ==
    /\ Len(oLog) = 3
    /\ IsStart(oLog[1], "t1")
    /\ IsFragment(oLog[2], "t1") /\ IsFragment(oLog[3], "t1")
    /\ LET written == SelectSeq(oFrames, IsArgsChunk)
       IN  /\ Len(written) = 2
           /\ written[1].arguments = F_open
           /\ written[2].arguments = F_close

IsBlockStart(f) == f.type = "content_block_start"

IsToolStart(f) == f.type = "content_block_start" /\ f.sub = "tool_use"

\* C9: in an Anthropic stream the text block is opened at index 0, every tool
\* block is opened at an index >= 1, and no two content_block_start frames
\* carry the same index.
C9_BlockIndicesUnique ==
    /\ aPc # "begin" =>
          \E i \in DOMAIN aFrames : IsBlockStart(aFrames[i]) /\ aFrames[i].sub = "text"
    /\ \A i \in DOMAIN aFrames :
          IsBlockStart(aFrames[i]) =>
              IF aFrames[i].sub = "text" THEN aFrames[i].index = 0
              ELSE aFrames[i].index >= 1
    /\ \A i, j \in DOMAIN aFrames :
          (IsBlockStart(aFrames[i]) /\ IsBlockStart(aFrames[j]) /\ i # j) =>
              aFrames[i].index # aFrames[j].index

\* C9 witness: a tool call was started twice and another one after it
C9_Witness ==
    LET starts == SelectSeq(aFrames, IsToolStart)
    IN  /\ Len(starts) = 3
        /\ starts[1].id = starts[2].id
        /\ starts[3].id # starts[1].id

\* the rank of id among the distinct ids of starts, in first-start order
FirstStart(starts, id) ==
    CHOOSE i \in DOMAIN starts :
        starts[i].id = id /\ \A j \in 1..(i - 1) : starts[j].id # id

Ordinal(starts, id) ==
    Cardinality({starts[j].id : j \in 1..FirstStart(starts, id)})

\* C10: the k-th distinct tool-call id started holds index textIndex + k, on
\* its first start and on every later start of the same id.
C10_IndexByFirstStartOrder ==
    LET starts == SelectSeq(aFrames, IsToolStart)
    IN  /\ \A i \in DOMAIN starts :
              starts[i].index = textBlockIndex + Ordinal(starts, starts[i].id)
        /\ \A id \in DOMAIN sb.calls :
              sb.calls[id].index = textBlockIndex + Ordinal(starts, id)

\* ------------------------------------------------ what a log amounts to
\* the ids started in log[1..k], in the order of their first start
RECURSIVE StartOrder(_, _)
StartOrder(log, k) ==
    IF k = 0 THEN << >>
    ELSE LET prev == StartOrder(log, k - 1)
             id == log[k].ev.tool_call_id
         IN  IF IsStart(log[k], id) /\ id # ""
                  /\ \A j \in DOMAIN prev : prev[j] # id
               THEN Append(prev, id) ELSE prev

\* the totalUsage of the last event of log[1..k] that carries one
RECURSIVE LastUsage(_, _)
LastUsage(log, k) ==
    IF k = 0 THEN <<0, 0>>
    ELSE IF log[k].ev.type = "response" /\ log[k].ev.totalUsage # << >>
           THEN log[k].ev.totalUsage
    ELSE LastUsage(log, k - 1)

\* the stop reason set by the last end event of log[1..k], "null" if none
RECURSIVE LastEndReason(_, _)
LastEndReason(log, k) ==
    IF k = 0 THEN "null"
    ELSE IF log[k].ev.type = "end"
           THEN (IF log[k].ev.userStop THEN "stop_sequence" ELSE "end_turn")
    ELSE LastEndReason(log, k - 1)

\* C11: the frames getFinalEvents writes are, in this order, content_block_stop
\* for index 0, one content_block_stop per registered tool call in the order
\* the ids were registered (each with the id's current index), one
\* message_delta with the final stop reason and the last usage, and message_stop
\* as the last frame; no other frame of the stream is a content_block_stop, a
\* message_delta or a message_stop.
C11_FinalEventsInOrder ==
    aPc = "ended" =>
        LET ids == StartOrder(aLog, Len(aLog))
            n == Len(ids)
            k == Len(aFrames) - (n + 3)
            indexOf(id) == aLog[LastStartBefore(aLog, id, Len(aLog) + 1)].out[1].index
            reason == IF n > 0 THEN "tool_use"
                      ELSE IF LastEndReason(aLog, Len(aLog)) = "null" THEN "end_turn"
                      ELSE LastEndReason(aLog, Len(aLog))
        IN  /\ k >= 0
            /\ aFrames[k + 1] = buildContentBlockStopEvent(0)
            /\ \A i \in 1..n :
                  aFrames[k + 1 + i] = buildContentBlockStopEvent(indexOf(ids[i]))
            /\ aFrames[k + n + 2] =
                  buildMessageDeltaEvent(reason, LastUsage(aLog, Len(aLog)))
            /\ aFrames[k + n + 3] = buildMessageStopEvent
            /\ \A i \in 1..k :
                  aFrames[i].type \notin
                      {"content_block_stop", "message_delta", "message_stop"}

\* C11 witness: a finished stream in which t2 was registered before t1 and a
\* usage was reported
C11_Witness ==
    /\ aPc = "ended"
    /\ StartOrder(aLog, Len(aLog)) = <<"t2", "t1">>
    /\ LastUsage(aLog, Len(aLog)) = <<3, 5>>

\* C12: a response that ends a session in which a tool call was registered
\* reports the tool-calls stop reason; stated here for the OpenAI
\* non-streaming path (finish_reason tool_calls).
C12_ToolCallsReasonReported ==
    (ons.pc = "responded" /\ DOMAIN ons.toolCallBuffers # {}) =>
        ons.response.finish_reason = "tool_calls"

\* a reason counts as set unless it is undefined or the empty string
ReasonSet(reason) == reason \notin {"undefined", ""}

\* C13: mapStopReason returns one of end_turn, max_tokens, stop_sequence,
\* tool_use for every set reason (end_turn for an unrecognized one) and null
\* only for an unset reason; mapToOpenAIFinishReason returns one of stop,
\* length, tool_calls (stop for an unrecognized reason) and null only when
\* the reason is unset and there was no tool call.
C13_StopReasonMappingsTotal ==
    /\ call.fn = "mapStopReason" =>
          /\ ReasonSet(call.reason) =>
                call.result \in {"end_turn", "max_tokens", "stop_sequence", "tool_use"}
          /\ ~ReasonSet(call.reason) => call.result = "null"
          /\ (ReasonSet(call.reason) /\ call.reason \notin
                 {"complete", "stop", "end_turn", "max_tokens", "length", "tool_use",
                  "tool_calls", "function_call", "stop_sequence"})
                => call.result = "end_turn"
    /\ call.fn = "mapToOpenAIFinishReason" =>
          /\ (ReasonSet(call.reason) \/ call.hasToolCalls) =>
                call.result \in {"stop", "length", "tool_calls"}
          /\ (~ReasonSet(call.reason) /\ ~call.hasToolCalls) => call.result = "null"
          /\ (ReasonSet(call.reason) /\ ~call.hasToolCalls /\ call.reason \notin
                 {"complete", "stop", "end_turn", "max_tokens", "length", "tool_use",
                  "tool_calls", "function_call"})
                => call.result = "stop"

\* C13 witness: an unrecognized reason was mapped to end_turn
C13_Witness ==
    /\ call.fn = "mapStopReason"
    /\ call.reason = "content_filter"
    /\ call.result = "end_turn"

BothDefaults ==
    Truthy(call.defaultProviderId) /\ Truthy(call.defaultModelId)

\* C14: with both defaults configured mapClaudeModel returns
\* (defaultProviderId, defaultModelId) for every model string.
C14_DefaultsOverride ==
    (call.fn = "mapClaudeModel" /\ BothDefaults) =>
        call.result = Mapping(call.defaultProviderId, call.defaultModelId)

\* C14 witness: a slash-delimited string was resolved to the defaults
C14_Witness ==
    /\ call.fn = "mapClaudeModel"
    /\ call.model = <<"acme", "/", "gpt">>
    /\ call.result = Mapping(<<"p">>, <<"m">>)

\* the text of s before and after the first occurrence of c
Before(s, c) == SubSeq(s, 1, IndexFrom(s, c, 1) - 1)
After(s, c) == SubSeq(s, IndexFrom(s, c, 1) + 1, Len(s))

\* C15: without both defaults, a model string that contains / and has text on
\* both sides of its first / resolves to (the text before the first /, all
\* the text after it).
C15_SplitAtFirstSlash ==
    (/\ call.fn = "mapClaudeModel" /\ ~BothDefaults
     /\ Includes(call.model, "/")
     /\ Before(call.model, "/") # << >> /\ After(call.model, "/") # << >>)
        => call.result = Mapping(Before(call.model, "/"), After(call.model, "/"))

\* C16: without both defaults, a model string without / that has text on both
\* sides of its first comma resolves to the two trimmed parts around that
\* comma; a string that contains / is never resolved by the comma rule: when
\* the slash rule does not resolve it, the result is the default-provider
\* fallback or no mapping.
C16_CommaRuleOnlyWithoutSlash ==
    (call.fn = "mapClaudeModel" /\ ~BothDefaults) =>
        /\ (/\ ~Includes(call.model, "/") /\ Includes(call.model, ",")
            /\ Before(call.model, ",") # << >> /\ After(call.model, ",") # << >>)
              => call.result = Mapping(Trim(Before(call.model, ",")),
                                       Trim(After(call.model, ",")))
        /\ (/\ Includes(call.model, "/")
            /\ (Before(call.model, "/") = << >> \/ After(call.model, "/") = << >>))
              => call.result =
                    IF Truthy(call.defaultProviderId)
                      THEN Mapping(call.defaultProviderId, call.model)
                      ELSE NoMapping

\* C17: without both defaults, a model string with neither / nor , resolves to
\* its table entry if it is a table key, else to (defaultProviderId, the
\* string) if a default provider is configured, else to no mapping.
C17_TableThenDefaultProvider ==
    (/\ call.fn = "mapClaudeModel" /\ ~BothDefaults
     /\ ~Includes(call.model, "/") /\ ~Includes(call.model, ","))
        => call.result =
              IF call.model \in ClaudeModelKeys
                THEN Mapping(<<"anthropic">>, call.model)
              ELSE IF Truthy(call.defaultProviderId)
                THEN Mapping(call.defaultProviderId, call.model)
              ELSE NoMapping

\* the request was a POST to path that passed the API-key check
Posted(path) ==
    /\ gw.handled
    /\ gw.req.method = "POST" /\ gw.req.path = path
    /\ (gw.config.apiKey = "undefined" \/ providedKey(gw.req) = gw.config.apiKey)

\* C18: a POST to /v1/messages whose body omits model, messages or
\* max_tokens, and a POST to /v1/chat/completions whose body omits model or
\* messages, is answered 400 invalid_request_error and never with
\* text/event-stream headers.
C18_OmissionAnswered400 ==
    LET body == gw.req.body
        rejected == /\ gw.answer.response.status = 400
                    /\ gw.answer.response.errorType = "invalid_request_error"
                    /\ gw.answer.response.contentType # "text/event-stream"
    IN  /\ (/\ Posted("/v1/messages") /\ body.json # "malformed"
            /\ (\/ body.model = undefined \/ body.messages = "undefined"
                \/ body.max_tokens = "undefined"))
              => rejected
        /\ (/\ Posted("/v1/chat/completions") /\ body.json # "malformed"
            /\ (body.model = undefined \/ body.messages = "undefined"))
              => rejected

\* C19: a POST to either completion endpoint whose messages is an empty array
\* is answered 400 and starts no session.
C19_EmptyMessagesRejected ==
    (/\ Posted("/v1/messages") \/ Posted("/v1/chat/completions")
     /\ gw.req.body.json = "object" /\ gw.req.body.messages = "empty")
        => (gw.answer.response.status = 400 /\ ~gw.answer.session)

\* the request (a POST that passed the API-key check) has a client error:
\* malformed JSON, a missing required field, an unresolvable model or an
\* unknown provider
ClientError(anthropic) ==
    LET body == gw.req.body
        modelMapping == mapClaudeModel(body.model, gw.config.defaultProviderId,
                                       gw.config.defaultModelId)
    IN  \/ body.json = "malformed"
        \/ ~Truthy(body.model)
        \/ body.messages \in {"undefined", "notArray"}
        \/ anthropic /\ body.max_tokens = "undefined"
        \/ modelMapping = NoMapping
        \/ modelMapping.providerId \notin GatewayProviders

\* C20: a request with a client error is answered 400 with the error envelope
\* of its endpoint's wire format, and no session is started for it.
C20_ClientErrorIs400NoSession ==
    /\ (Posted("/v1/messages") /\ ClientError(TRUE)) =>
          /\ gw.answer.response.status = 400
          /\ gw.answer.response.envelope = "anthropic"
          /\ ~gw.answer.session
    /\ (Posted("/v1/chat/completions") /\ ClientError(FALSE)) =>
          /\ gw.answer.response.status = 400
          /\ gw.answer.response.envelope = "openai"
          /\ ~gw.answer.session

\* the request carries key in "Authorization: Bearer <key>" or in X-Api-Key
Presents(req, key) ==
    req.authorization = <<"Bearer ", key>> \/ req.xApiKey = key

\* a request other than OPTIONS arrived at a server with an API key configured
KeyChecked ==
    gw.handled /\ gw.config.apiKey # "undefined" /\ gw.req.method # "OPTIONS"

\* C21: with an API key configured, a request other than OPTIONS is passed on
\* to the routing exactly when it presents the configured key in
\* "Authorization: Bearer <key>" or in X-Api-Key, whatever the other header
\* holds; every other request is answered 401 and reaches no handler.
C21_EitherHeaderSuffices ==
    KeyChecked =>
        IF Presents(gw.req, gw.config.apiKey)
          THEN gw.answer.response.status # 401
          ELSE /\ gw.answer.response.status = 401
               /\ gw.answer.handler = "none" /\ ~gw.answer.session

\* C22: a 401 is written in the envelope of the endpoint asked for: the
\* OpenAI envelope on POST /v1/chat/completions, the Anthropic envelope on
\* POST /v1/messages.
C22_UnauthorizedInEndpointEnvelope ==
    (KeyChecked /\ gw.req.method = "POST" /\ gw.answer.response.status = 401)
        => /\ gw.req.path = "/v1/chat/completions"
              => gw.answer.response.envelope = "openai"
           /\ gw.req.path = "/v1/messages"
              => gw.answer.response.envelope = "anthropic"

\* the provider failed while the handler was streaming: the stream threw, or
\* it delivered an error event to the loop
FailureSeen(position, log) ==
    position = "failed" \/ \E i \in DOMAIN log : log[i].ev.type = "error"

\* C23: in both streaming handlers, when the connection has been closed after
\* a provider failure (an error event or a thrown exception), an in-band
\* error frame was written to it before.
C23_FailureFramedInBand ==
    /\ (aPc \in {"ended", "failed"} /\ FailureSeen(aPc, aLog))
          => \E i \in DOMAIN aFrames : aFrames[i].type = "error"
    /\ (oPc \in {"ended", "failed"} /\ FailureSeen(oPc, oLog))
          => \E i \in DOMAIN oFrames : oFrames[i].delta = "error"

\* C24: in both non-streaming handlers, once the loop has received an error
\* event exactly one response has been written, and it is a 500 in the error
\* envelope of the handler's format, never a 200 with the content gathered
\* so far.
C24_ErrorEventAnswered500Once ==
    /\ ns.errors > 0 =>
          /\ ns.written = 1
          /\ ns.response.status = 500 /\ ns.response.envelope = "anthropic"
    /\ ons.errors > 0 =>
          /\ ons.written = 1
          /\ ons.response.status = 500 /\ ons.response.envelope = "openai"
    /\ ns.written <= 1 /\ ons.written <= 1

\* both handlers received an error event after content had been gathered
C24_Witness ==
    /\ ns.errors > 0 /\ ns.textContent # << >> /\ ns.response.status = 500
    /\ ons.errors > 0 /\ ons.textContent # << >> /\ ons.response.status = 500

\* the positions of the data: [DONE] frames in the OpenAI stream
DonePositions == {i \in DOMAIN oFrames : oFrames[i] = DoneFrame}

\* C25: an OpenAI streaming response that has ended, after the loop or in
\* the catch block, holds exactly one data: [DONE] frame and it is the last
\* frame written; no [DONE] is written while the response is open.
C25_ExactlyOneDoneLast ==
    /\ oPc \in {"ended", "failed"} => DonePositions = {Len(oFrames)}
    /\ oPc \in {"begin", "loop"} => DonePositions = {}

\* the stream threw after it had delivered events that wrote chunks
C25_Witness ==
    /\ oPc = "failed"
    /\ \E i \in DOMAIN oLog : oLog[i].out # << >>
    /\ DonePositions = {Len(oFrames)}

\* a call of convertUserMessage, of either normalizer, has returned
UserMessageConverted ==
    call.fn \in {"convertUserMessage", "openaiConvertUserMessage"}

\* C26: in both normalizers the content of a canonical user message is never
\* an array of exactly one text part, and a message whose content is the
\* array of the one text block t is normalized like the message whose content
\* is the string t.
C26_SingleTextCollapsed ==
    /\ UserMessageConverted =>
          ~(/\ call.result.content.type = "array"
            /\ Len(call.result.content.value) = 1
            /\ call.result.content.value[1].type = "text")
    /\ \A text \in Texts :
          (UserMessageConverted /\ call.msg.content = Arr(<<TextBlock(text)>>))
              => call.result =
                    IF call.fn = "convertUserMessage"
                      THEN convertUserMessage([role |-> "user", content |-> Str(text)])
                      ELSE openaiConvertUserMessage([role |-> "user", content |-> Str(text)])

\* a content of one text block was normalized to the string of its text
C26_Witness ==
    /\ call.fn = "convertUserMessage"
    /\ call.msg.content = Arr(<<TextBlock(<<"h", "i">>)>>)
    /\ call.result = [role |-> "user", content |-> Str(<<"h", "i">>)]

\* the tool_use_ids of the tool_result blocks of a content, in block order
ToolResultIds(content) ==
    IF content.type # "array" THEN << >>
    ELSE LET results ==
                 SelectSeq(content.value, LAMBDA block : block.type = "tool_result")
         IN  [k \in 1..Len(results) |-> results[k].tool_use_id]

\* the canonical messages out are, turn by turn, those of the wire messages:
\* for a user turn its user message and then one tool message per
\* tool_result of the turn, in block order and with its id
RECURSIVE TurnsMatch(_, _)
TurnsMatch(msgs, out) ==
    IF msgs = << >> THEN out = << >>
    ELSE IF out = << >> THEN FALSE
    ELSE IF Head(msgs).role = "assistant"
      THEN Head(out).role = "assistant" /\ TurnsMatch(Tail(msgs), Tail(out))
    ELSE LET ids == ToolResultIds(Head(msgs).content)
         IN  /\ Head(out).role = "user"
             /\ Len(out) >= 1 + Len(ids)
             /\ \A k \in 1..Len(ids) :
                   out[1 + k].role = "tool" /\ out[1 + k].tool_call_id = ids[k]
             /\ TurnsMatch(Tail(msgs), SubSeq(out, 2 + Len(ids), Len(out)))

\* the canonical messages of the request, without the system message
Turns(messages) ==
    SelectSeq(messages, LAMBDA message : message.role # "system")

\* C27: every tool_result block of a user turn becomes exactly one canonical
\* tool message with tool_call_id equal to its tool_use_id, the tool messages
\* of a turn follow the turn's user message in block order, and the content
\* of no canonical user message holds a tool_result.
C27_ToolResultsFollowUserMessage ==
    call.fn = "convertClaudeToInternal" =>
        /\ TurnsMatch(call.request.messages, Turns(call.result.messages))
        /\ \A i \in DOMAIN call.result.messages :
              LET message == call.result.messages[i]
              IN  (message.role = "user" /\ message.content.type = "array")
                    => \A j \in DOMAIN message.content.value :
                          message.content.value[j].type \in {"text", "image_url"}

\* a user turn with two tool_result blocks gave a user message and then the
\* two tool messages in block order
C27_Witness ==
    /\ call.fn = "convertClaudeToInternal"
    /\ Len(call.request.messages) = 2
    /\ ToolResultIds(call.request.messages[2].content) = <<"t2", "t1">>
    /\ LET out == Turns(call.result.messages)
       IN  /\ Len(out) = 4
           /\ out[2].role = "user"
           /\ out[3].role = "tool" /\ out[3].tool_call_id = "t2"
           /\ out[4].role = "tool" /\ out[4].tool_call_id = "t1"

\* every text a count_tokens request carries as a string content, as a text
\* block of a message or in its system prompt, one entry per occurrence
CountedTexts(request) ==
    LET TextsOf(content) ==
            IF content.type = "string" THEN <<content.value>>
            ELSE IF content.type = "array"
              THEN LET blocks == SelectSeq(content.value,
                                           LAMBDA block : block.type = "text")
                   IN  [k \in 1..Len(blocks) |-> blocks[k].text]
            ELSE << >>
        msgs == request.messages
    IN  TextsOf(request.system)
        \o (IF Len(msgs) >= 1 THEN TextsOf(msgs[1].content) ELSE << >>)
        \o (IF Len(msgs) >= 2 THEN TextsOf(msgs[2].content) ELSE << >>)
        \o (IF Len(msgs) >= 3 THEN TextsOf(msgs[3].content) ELSE << >>)

RECURSIVE TotalLength(_)
TotalLength(texts) ==
    IF texts = << >> THEN 0 ELSE Len(Head(texts)) + TotalLength(Tail(texts))

\* C28: a count_tokens request with system and messages as specified is
\* answered 200 with input_tokens = max(1, floor(totalChars / 4)), totalChars
\* being the length of the system prompt text plus the lengths of every
\* string content and every text block of the messages; other blocks add
\* nothing, and input_tokens is at least 1.
C28_TokensAreQuarterOfChars ==
    (call.fn = "handleCountTokens" /\ call.request.json = "object") =>
        LET totalChars == TotalLength(CountedTexts(call.request))
            tokens == call.result.input_tokens
        IN  /\ call.result.status = 200
            /\ tokens >= 1
            /\ totalChars < 4 => tokens = 1
            /\ totalChars >= 4 => (4 * tokens <= totalChars /\ totalChars < 4 * tokens + 4)

\* ten characters of text beside a tool_result block were counted as 2 tokens
C28_Witness ==
    /\ call.fn = "handleCountTokens" /\ call.request.json = "object"
    /\ TotalLength(CountedTexts(call.request)) = 10
    /\ \E i \in DOMAIN call.request.messages :
          LET content == call.request.messages[i].content
          IN  /\ content.type = "array"
              /\ \E j \in DOMAIN content.value : content.value[j].type = "tool_result"
    /\ call.result.input_tokens = 2

\* the ids providerId/modelId of the models of the providers that are enabled
\* and whose fetch succeeded, in provider order
RECURSIVE ListedIds(_)
ListedIds(providers) ==
    LET serving == SelectSeq(providers,
                             LAMBDA provider : provider.enable /\ provider.list.ok)
    IN  IF serving = << >> THEN << >>
        ELSE [k \in 1..Len(serving[1].list.models) |->
                 <<serving[1].id, "/", serving[1].list.models[k]>>]
             \o ListedIds(Tail(serving))

\* C29: when the providers can be listed, GET /v1/models answers 200 with
\* exactly the models of the enabled providers whose fetch succeeded, in
\* provider order and named providerId/modelId; a failed fetch adds nothing
\* and does not fail the request, and no disabled provider is queried.
C29_ModelsOfServingProviders ==
    (call.fn = "handleListModels" /\ call.listing.ok) =>
        LET providers == call.listing.providers
            data == call.result.response.data
        IN  /\ call.result.response.status = 200
            /\ [k \in 1..Len(data) |-> data[k].id] = ListedIds(providers)
            /\ \A k \in DOMAIN call.result.queried :
                  providers[call.result.queried[k]].enable

\* a failing provider, a disabled one and a serving one: the answer is 200
\* with the models of the third, and the second was not queried
C29_Witness ==
    /\ call.fn = "handleListModels" /\ call.listing.ok
    /\ Len(call.listing.providers) = 3
    /\ call.listing.providers[1].enable /\ ~call.listing.providers[1].list.ok
    /\ ~call.listing.providers[2].enable /\ call.listing.providers[2].list.ok
    /\ call.listing.providers[3] =
          [id |-> "q", enable |-> TRUE, list |-> [ok |-> TRUE, models |-> <<"m", "n">>]]
    /\ call.result.response.status = 200
    /\ call.result.queried = <<1, 3>>
    /\ Len(call.result.response.data) = 2
    /\ call.result.response.data[2].id = <<"q", "/", "n">>

RECURSIVE HandledAlone(_, _)
HandledAlone(kind, log) ==
    IF log = << >> THEN StreamingBegun(kind)
    ELSE LET before == HandledAlone(kind, SubSeq(log, 1, Len(log) - 1))
         IN  StreamingHandled(before, before.builder, log[Len(log)])

\* C31: under every interleaving of the events of two streaming requests,
\* the frames written for a request and the state of its encoder (block
\* indices, tool buffers, stop reason, usage) are those of the request
\* running alone on the same events.
C31_EncoderStatePerSession ==
    \A r \in Responses :
        /\ enc[r].pc = "loop" => enc[r] = HandledAlone(enc[r].kind, enc[r].log)
        /\ enc[r].pc = "ended" =>
              enc[r] = StreamingFinished(HandledAlone(enc[r].kind, enc[r].log))

\* two Anthropic responses, both with tool calls, ended with the same frames
C31_Witness ==
    /\ enc[1].kind = "anthropic" /\ enc[2].kind = "anthropic"
    /\ enc[1].pc = "ended" /\ enc[2].pc = "ended"
    /\ Len(enc[1].log) = 2 /\ enc[1].log[1].tool_call = "start"
    /\ enc[1].log[2].tool_call = "start"
    /\ enc[2].log = enc[1].log
    /\ enc[2].frames = enc[1].frames

\* the session is registered and its finally block has not run yet
Running(s) == pc[s] \in {"awaitChunk", "yielded"}

\* C32: isGenerating(eventId) is true for the eventId of every session from
\* its registration until its own finally block runs, also when another
\* session is started or ends under the same eventId in between.
C32_GeneratingUntilOwnExit ==
    \A s \in Sessions : Running(s) => isGenerating(eventIdOf[s])

\* C33: stopStream(eventId) only signals. It sets the abort flag of the session
\* registered under eventId and of no other, leaves activeStreams and every
\* session where it was, and changes nothing when eventId is not registered.
C33_StopStreamOnlySignals ==
    [][\A e \in EventIds :
          StopStream(e) =>
              /\ activeStreams' = activeStreams
              /\ UNCHANGED <<maxConcurrentStreams, sessVars, scpVars>>
              /\ IF e \in DOMAIN activeStreams
                    THEN aborted' = [aborted EXCEPT ![activeStreams[e]] = TRUE]
                    ELSE UNCHANGED <<aborted, stopAt>>]_vars

\* stopStream has reached a session that is still registered under its eventId
\* while a second session, registered too, has not been signalled
C33_Witness ==
    \E s, t \in Sessions :
        /\ aborted[s] /\ ~aborted[t]
        /\ Running(s) /\ Running(t)
        /\ isGenerating(eventIdOf[s]) /\ activeStreams[eventIdOf[s]] = s
        /\ isGenerating(eventIdOf[t]) /\ activeStreams[eventIdOf[t]] = t

\* C34: a setCurrentProvider call that fails because the provider id is unknown
\* leaves the state as it was: it aborts no session and currentProviderId
\* keeps its value.
C34_UnknownProviderNoEffect ==
    [][/\ \A p \in ProviderIds \ KnownProviders :
             SetCurrentProviderCall(p) => aborted' = aborted
       /\ (SetCurrentProviderResume /\ scpArg \notin KnownProviders) =>
             currentProviderId' = currentProviderId]_vars

\* the partial_json of the input_json_delta frames written for id by the
\* update events log[from..k], concatenated
RECURSIVE EmittedJson(_, _, _, _)
EmittedJson(log, id, from, k) ==
    IF k < from THEN << >>
    ELSE EmittedJson(log, id, from, k - 1)
           \o (IF IsFragment(log[k], id) /\ log[k].out # << >>
                 THEN log[k].out[1].data ELSE << >>)

\* the last update event of log[from..k] for id that wrote a frame; 0 if none
RECURSIVE LastEmission(_, _, _, _)
LastEmission(log, id, from, k) ==
    IF k < from THEN 0
    ELSE IF IsFragment(log[k], id) /\ log[k].out # << >> THEN k
    ELSE LastEmission(log, id, from, k - 1)

\* C35: for every tool-call id of an Anthropic stream, the partial_json of all
\* input_json_delta frames written for the id, concatenated, is the argument
\* text accumulated when the last of them was written: nothing is written
\* twice, whatever fragments arrive after the buffer first parsed.
C35_DeltasConcatenateToArguments ==
    \A id \in ToolIds :
        LET s0 == LastStartBefore(aLog, id, Len(aLog) + 1)
            last == LastEmission(aLog, id, s0 + 1, Len(aLog))
        IN  (s0 # 0 /\ last # 0) =>
                EmittedJson(aLog, id, s0 + 1, Len(aLog)) = Fed(aLog, id, s0 + 1, last)

\* the positions of frames whose type is type and, for index # -1, whose
\* index is index
FramesAt(frames, type, index) ==
    {i \in DOMAIN frames : frames[i].type = type /\ frames[i].index = index}

\* C36: the frames of an Anthropic stream that ended normally are well
\* bracketed: message_start comes once and first, message_stop once and last,
\* every content_block_start is followed by exactly one content_block_stop of
\* its index, and every content_block_delta lies between the start and the
\* stop of its index, also when a tool-call id is started more than once.
C36_FramesWellBracketed ==
    aPc = "ended" =>
        /\ FramesAt(aFrames, "message_start", -1) = {1}
        /\ FramesAt(aFrames, "message_stop", -1) = {Len(aFrames)}
        /\ \A i \in DOMAIN aFrames :
              aFrames[i].type = "content_block_start" =>
                  Cardinality({j \in FramesAt(aFrames, "content_block_stop",
                                              aFrames[i].index) : j > i}) = 1
        /\ \A i \in DOMAIN aFrames :
              aFrames[i].type = "content_block_delta" =>
                  /\ \E j \in FramesAt(aFrames, "content_block_start",
                                        aFrames[i].index) : j < i
                  /\ \A j \in FramesAt(aFrames, "content_block_stop",
                                        aFrames[i].index) : j > i

\* the locals of handleNonStreamingResponse after the response events of
\* log[1..k]
RECURSIVE NonStreamingAlone(_, _)
NonStreamingAlone(log, k) ==
    IF k = 0 THEN NewNonStreaming
    ELSE IF log[k].ev.type = "response"
           THEN NonStreamingResponse(NonStreamingAlone(log, k - 1), log[k].ev)
           ELSE NonStreamingAlone(log, k - 1)

\* the input a client of the stream holds for id: the arguments of the last
\* input_json_delta written since the last start of id, {} if there is none
StreamedInput(log, id) ==
    LET s0 == LastStartBefore(log, id, Len(log) + 1)
        last == LastEmission(log, id, s0 + 1, Len(log))
    IN  IF last = 0 THEN [kind |-> "empty", text |-> << >>]
        ELSE [kind |-> "json", text |-> log[last].out[1].data]

\* C37: on the same provider events without an error event, the Anthropic
\* streaming path and the non-streaming path report the same input for every
\* tool call.
C37_SameToolInputBothPaths ==
    (aPc = "ended" /\ \A k \in DOMAIN aLog : aLog[k].ev.type # "error") =>
        LET s == NonStreamingAlone(aLog, Len(aLog))
        IN  /\ DOMAIN s.toolCalls = DOMAIN sb.calls
            /\ \A id \in DOMAIN s.toolCalls :
                  s.toolCalls[id].input = StreamedInput(aLog, id)

\* C38: the tool_calls of an OpenAI non-streaming response hold exactly one
\* entry for every tool-call id that was started, whether the id received no
\* update, one or several; no two entries share an id.
C38_OneEntryPerStartedId ==
    ons.pc = "responded" =>
        LET entries == ons.response.tool_calls
        IN  \A id \in ToolIds :
                Cardinality({k \in DOMAIN entries : entries[k].id = id})
                    = IF id \in DOMAIN ons.toolCallBuffers THEN 1 ELSE 0

\* s is a string that still holds a character after trimming
NonEmptyTrimmed(s) == s # undefined /\ Trim(s) # << >>

\* C39: whenever mapClaudeModel returns a mapping, its providerId and its
\* modelId are strings that are not empty after trimming.
C39_MappingFieldsNonEmpty ==
    (call.fn = "mapClaudeModel" /\ call.result # NoMapping) =>
        /\ NonEmptyTrimmed(call.result.providerId)
        /\ NonEmptyTrimmed(call.result.modelId)

\* C40: under every interleaving of start() and stop() at most one server of
\* the presenter is listening; when no call is under way, getStatus().isRunning
\* is true exactly when one is listening; and once stop() has resolved, no
\* server of the presenter is listening.
C40_OneServerStatusTruthful ==
    /\ Cardinality(Listening(srv)) <= 1
    /\ Quiescent(srv) => (getStatus(srv) <=> Cardinality(Listening(srv)) = 1)
    /\ srv.stopped => Listening(srv) = {}

====
